---- MODULE Spec2Model ----
(***************************************************************************)
(* Noslock: capability-URL protocol of an encrypted pastebin on Nostr.     *)
(*                                                                         *)
(* Bytes are integers 0..255, byte arrays (Uint8Array) are sequences of    *)
(* bytes, and JavaScript strings are sequences of character codes, so     *)
(* that hex, base64 and UTF-8 conversions are computed, not assumed.       *)
(***************************************************************************)
EXTENDS Integers, Sequences, FiniteSets, TLC

VARIABLES
    urlPc,      \* URL codec: "idle" | "built" | "parsed"
    urlIn,      \* URL codec: the (docId, key, form) the URL under test was made from
    url,        \* URL codec: the URL string under test
    navTarget,  \* URL codec: the in-app navigation target built for the same paste
    urlOut,     \* URL codec: the outcome of parseCapabilityUrl(url)
    cPc,        \* paste codec: "idle" | "encrypted" | "encoded" | "decoded" | "decrypted"
                \*              | "raw_encoded" | "raw_decoded" | "large_compared"
    cPlain,     \* paste codec: what was encrypted, [text, bytes, by]
    cPaste,     \* paste codec: the EncryptedPaste {ciphertext, nonce, key, docId}
    cContent,   \* paste codec: the event content made by publishPaste
    cFetched,   \* paste codec: what fetchPaste makes of that content
    cIn,        \* paste codec: the arguments decryptPaste was called with
    cOut,       \* paste codec: the outcome of decryptPaste
    cHeap,      \* paste codec: what the buffers of the last call hold once it settled
    cCalls,     \* paste codec: the libsodium functions decryptPaste's last call invoked, in order
    cLarge,     \* paste codec: what came of encoding and decoding a payload about one chunk long
    sealed,     \* every (key, nonce, ciphertext) the AEAD cipher has produced
    wPc,        \* write flow: "idle" | "encrypted" | "publishing" | "published" | "publish_failed"
    wText,      \* write flow: the text typed in the Editor
    wPaste,     \* write flow: what encryptPaste returned
    appDocId,   \* App state docId
    capabilityUrl, \* App state capabilityUrl
    location,   \* the route the writer's browser shows
    wEvent,     \* write flow: the signed event publishPaste made
    pub,        \* publishPaste: per relay, "idle" | "pending" | "ok" | "failed"
    pubPool,    \* publishPaste: its RelayPool, "none" | "open" | "closed"
    store,      \* per relay, the events it holds
    wire,       \* every message a client has sent to a relay
    rPc,        \* Reader.load: "unmounted" | "awaitKey" | "awaitFetch" | "awaitDecrypt" | "finished"
    rDocId,     \* Reader: useParams().docId
    rHash,      \* Reader: useLocation().hash
    rKey,       \* Reader.load: key
    rState,     \* Reader: state
    rContent,   \* Reader: content
    rOut,       \* Reader.load: the outcome of its decryptPaste call
    cancelled,  \* Reader effect: cancelled
    fPc,        \* fetchPaste: "idle" | "querying" | "settled"
    fResult,    \* fetchPaste: what it returned or threw
    query,      \* fetchPaste: per relay, "idle" | "pending" | "event" | "empty" | "failed"
    got,        \* fetchPaste: the contents of the events the relays have returned
    fetchPool,  \* fetchPaste: its RelayPool, "none" | "open" | "closed"
    fEvent,     \* fetchPaste: event, what Promise.race settled with
    relinks,    \* Reader: how often docId or hash changed while it was mounted
    console,    \* what console.log was given: the data arguments
    sodiumReady, \* libsodium: sodium.ready (cryptoReady) has resolved
    gatePc,     \* per core entry point, "idle" | "awaiting" | "returned"
    calledEarly, \* the entry points that were called before sodium.ready resolved
    touched,    \* every call of a libsodium function: [entry, primitive, ready]
    tPc,        \* per paste creation, "idle" | "awaitEncrypt" | "signing" | "publishing" | "published" | "publish_failed"
    tContent,   \* per paste creation, the plaintext its encryptPaste call was given
    tPaste,     \* per paste creation, what its encryptPaste call returned
    tEvent,     \* per paste creation, the signed event its publishPaste call made
    tPool,      \* per paste creation, the RelayPool of its publishPaste call, "none" | "open" | "closed"
    tMounted,   \* per paste creation, whether the Editor that started it is still mounted
    isEncrypting, \* Editor state isEncrypting, of the Editor now mounted
    awaiting,   \* the encryptPaste calls suspended at `await sodium.ready`, oldest first
    randomCalls \* how many encryptPaste calls have drawn from the random source

urlVars == <<urlPc, urlIn, url, navTarget, urlOut>>

codecOwn == <<cPc, cPlain, cPaste, cContent, cFetched, cIn, cOut, cHeap, cCalls, cLarge>>

codecVars == <<codecOwn, sealed>>

writeVars == <<wPc, wText, wPaste, appDocId, capabilityUrl, location, wEvent, pub, pubPool>>

readVars == <<rPc, rDocId, rHash, rKey, rState, rContent, rOut, cancelled,
              fPc, fResult, query, got, fetchPool, fEvent, relinks>>

flowVars == <<writeVars, readVars, store, wire, console>>

gateVars == <<sodiumReady, gatePc, calledEarly, touched>>

creationVars == <<tPc, tContent, tPaste, tEvent, tPool, tMounted, isEncrypting, awaiting, randomCalls>>

vars == <<urlVars, codecVars, flowVars, gateVars, creationVars>>

\* What an operation of one part leaves alone
notUrl == <<codecVars, flowVars, gateVars, creationVars>>
notCodec == <<urlVars, flowVars, gateVars, creationVars>>
notFlow == <<urlVars, codecOwn, gateVars, creationVars>>
notGate == <<urlVars, codecVars, flowVars, creationVars>>
notCreation == <<urlVars, codecOwn, gateVars>>

-----------------------------------------------------------------------------
(* Program constants                                                       *)

KEYBYTES == 32
NPUBBYTES == 24
ABYTES == 16
DOCIDBYTES == 32
KEYHEXLEN == 64

(* Bounds of the model                                                     *)

NSeeds == 2
MaxTextLen == 2
NRelays == 2
MaxRelinks == 1
NCreations == 2

-----------------------------------------------------------------------------
(* Characters and strings                                                  *)

ChHash == 35      \* '#'
ChSlash == 47     \* '/'
\* "g": a letter that is not a hex digit
NonHex == <<103>>
\* '/', '?' and '#' end the host of a URL; '?' and '#' end its path
HostStops == {47, 63, 35}
PathStops == {63, 35}

\* "noslock://"
NOSLOCK == <<110, 111, 115, 108, 111, 99, 107, 58, 47, 47>>
\* "https://"
HTTPS == <<104, 116, 116, 112, 115, 58, 47, 47>>
\* window.location.origin of the web-hosted variant: "https://n.io"
ORIGIN == HTTPS \o <<110, 46, 105, 111>>

\* An empty Uint8Array
NoBytes == <<>>

Includes(s, c) == \E i \in 1..Len(s) : s[i] = c

\* String.prototype.indexOf for one character; 0 when absent.
IndexOf(s, c) ==
    IF Includes(s, c)
    THEN CHOOSE i \in 1..Len(s) : s[i] = c /\ \A j \in 1..(i - 1) : s[j] # c
    ELSE 0

StartsWith(s, p) == Len(s) >= Len(p) /\ SubSeq(s, 1, Len(p)) = p

\* s.slice(n): the string without its first n characters.
Slice(s, n) == SubSeq(s, n + 1, Len(s))

\* t occurs in s as a contiguous substring.
Occurs(t, s) ==
    \E i \in 0..(Len(s) - Len(t)) : \A j \in 1..Len(t) : s[i + j] = t[j]

CountOf(s, c) == Cardinality({i \in 1..Len(s) : s[i] = c})

\* s.split(c)[0] and s.split(c)[1] (the second only when c occurs in s).
SplitFirst(s, c) ==
    IF Includes(s, c) THEN SubSeq(s, 1, IndexOf(s, c) - 1) ELSE s

SplitSecond(s, c) == SplitFirst(Slice(s, IndexOf(s, c)), c)

-----------------------------------------------------------------------------
(* Hex conversion (sodium.to_hex, sodium.from_hex) and the hex regexes     *)

HexDigit(n) == IF n < 10 THEN 48 + n ELSE 87 + n

ToHex(bytes) ==
    [i \in 1..(2 * Len(bytes)) |->
        IF i % 2 = 1 THEN HexDigit(bytes[(i + 1) \div 2] \div 16)
                     ELSE HexDigit(bytes[i \div 2] % 16)]

IsHexChar(c) == c \in (48..57) \cup (97..102) \cup (65..70)

HexVal(c) ==
    IF c \in 48..57 THEN c - 48
    ELSE IF c \in 97..102 THEN c - 87
    ELSE c - 55

FromHex(s) ==
    [i \in 1..(Len(s) \div 2) |-> 16 * HexVal(s[2 * i - 1]) + HexVal(s[2 * i])]

\* /^[a-f0-9]+$/i
IsHexString(s) == Len(s) >= 1 /\ \A i \in 1..Len(s) : IsHexChar(s[i])

ToUpper(s) == [i \in 1..Len(s) |-> IF s[i] \in 97..122 THEN s[i] - 32 ELSE s[i]]

-----------------------------------------------------------------------------
(* Random source: sodium.randombytes_buf(n). A draw is named by a seed;    *)
(* different seeds give different buffers.                                 *)

Fill(b, n) == [i \in 1..n |-> b]

RandBytes(seed, n) == [i \in 1..n |-> (seed * 61 + i * 7 + 3) % 256]

-----------------------------------------------------------------------------
(* Text conversion: sodium.from_string (UTF-8 encoding) and                *)
(* sodium.to_string (strict UTF-8 decoding, throws on malformed input).    *)
(* A string of text is a sequence of Unicode scalar values.                *)

Utf8Encode(cp) ==
    IF cp < 128 THEN <<cp>>
    ELSE IF cp < 2048 THEN <<192 + (cp \div 64), 128 + (cp % 64)>>
    ELSE IF cp < 65536
         THEN <<224 + (cp \div 4096), 128 + ((cp \div 64) % 64), 128 + (cp % 64)>>
    ELSE <<240 + (cp \div 262144), 128 + ((cp \div 4096) % 64),
           128 + ((cp \div 64) % 64), 128 + (cp % 64)>>

RECURSIVE from_string(_)
from_string(str) ==
    IF str = <<>> THEN <<>> ELSE Utf8Encode(Head(str)) \o from_string(Tail(str))

\* Number of continuation bytes a lead byte announces; -1 for a byte that
\* cannot start a character.
Utf8Need(b0) ==
    IF b0 < 128 THEN 0
    ELSE IF b0 \in 194..223 THEN 1
    ELSE IF b0 \in 224..239 THEN 2
    ELSE IF b0 \in 240..244 THEN 3
    ELSE -1

\* The range allowed for the first continuation byte (no overlong forms, no
\* surrogates, nothing above U+10FFFF).
Utf8SecondLow(b0) == IF b0 = 224 THEN 160 ELSE IF b0 = 240 THEN 144 ELSE 128
Utf8SecondHigh(b0) == IF b0 = 237 THEN 159 ELSE IF b0 = 244 THEN 143 ELSE 191

Utf8Value(b, i, need) ==
    CASE need = 0 -> b[i]
      [] need = 1 -> (b[i] - 192) * 64 + (b[i + 1] - 128)
      [] need = 2 -> (b[i] - 224) * 4096 + (b[i + 1] - 128) * 64 + (b[i + 2] - 128)
      [] OTHER -> (b[i] - 240) * 262144 + (b[i + 1] - 128) * 4096
                    + (b[i + 2] - 128) * 64 + (b[i + 3] - 128)

TextOk(str) == [ok |-> TRUE, text |-> str]
TextFail == [ok |-> FALSE, text |-> <<>>]

RECURSIVE Utf8DecodeFrom(_, _)
Utf8DecodeFrom(b, i) ==
    IF i > Len(b) THEN TextOk(<<>>)
    ELSE LET need == Utf8Need(b[i])
         IN  IF need = -1 \/ i + need > Len(b) THEN TextFail
             ELSE IF need >= 1 /\ b[i + 1] \notin Utf8SecondLow(b[i])..Utf8SecondHigh(b[i])
                  THEN TextFail
             ELSE IF \E j \in 2..need : b[i + j] \notin 128..191 THEN TextFail
             ELSE LET rest == Utf8DecodeFrom(b, i + need + 1)
                  IN  IF rest.ok THEN TextOk(<<Utf8Value(b, i, need)>> \o rest.text)
                      ELSE TextFail

to_string(bytes) == Utf8DecodeFrom(bytes, 1)

-----------------------------------------------------------------------------
(* Base64: btoa over a binary string and atob (forgiving-base64 decode)    *)

B64Pad == 61   \* '='

B64Char(v) ==
    IF v < 26 THEN 65 + v
    ELSE IF v < 52 THEN 71 + v
    ELSE IF v < 62 THEN v - 4
    ELSE IF v = 62 THEN 43
    ELSE 47

IsB64Char(c) == c \in (65..90) \cup (97..122) \cup (48..57) \cup {43, 47}

B64Val(c) ==
    IF c \in 65..90 THEN c - 65
    ELSE IF c \in 97..122 THEN c - 71
    ELSE IF c \in 48..57 THEN c + 4
    ELSE IF c = 43 THEN 62
    ELSE 63

ByteAt(b, i) == IF i <= Len(b) THEN b[i] ELSE 0

btoa(bin) ==
    [i \in 1..(4 * ((Len(bin) + 2) \div 3)) |->
        LET g == (i - 1) \div 4
            b0 == ByteAt(bin, 3 * g + 1)
            b1 == ByteAt(bin, 3 * g + 2)
            b2 == ByteAt(bin, 3 * g + 3)
        IN  CASE (i - 1) % 4 = 0 -> B64Char(b0 \div 4)
              [] (i - 1) % 4 = 1 -> B64Char((b0 % 4) * 16 + (b1 \div 16))
              [] (i - 1) % 4 = 2 ->
                    IF 3 * g + 2 > Len(bin) THEN B64Pad
                    ELSE B64Char((b1 % 16) * 4 + (b2 \div 64))
              [] OTHER ->
                    IF 3 * g + 3 > Len(bin) THEN B64Pad ELSE B64Char(b2 % 64)]

AsciiWhitespace == {9, 10, 12, 13, 32}

StripWhitespace(str) == SelectSeq(str, LAMBDA c : c \notin AsciiWhitespace)

\* Remove one or two trailing '=' when the length is a multiple of four.
StripPadding(str) ==
    IF Len(str) % 4 = 0 /\ Len(str) >= 1 /\ str[Len(str)] = B64Pad
    THEN IF str[Len(str) - 1] = B64Pad THEN SubSeq(str, 1, Len(str) - 2)
         ELSE SubSeq(str, 1, Len(str) - 1)
    ELSE str

BytesOk(b) == [ok |-> TRUE, bytes |-> b]
BytesFail == [ok |-> FALSE, bytes |-> <<>>]

\* atob(str): the binary string as bytes, or a thrown InvalidCharacterError.
atob(str) ==
    LET data == StripPadding(StripWhitespace(str))
    IN  IF Len(data) % 4 = 1 \/ \E i \in 1..Len(data) : ~IsB64Char(data[i])
        THEN BytesFail
        ELSE BytesOk([i \in 1..((Len(data) * 6) \div 8) |->
                LET bit == 8 * (i - 1)
                    j == bit \div 6 + 1
                    v0 == B64Val(data[j])
                    v1 == B64Val(data[j + 1])
                IN  CASE bit % 6 = 0 -> v0 * 4 + (v1 \div 16)
                      [] bit % 6 = 2 -> (v0 % 16) * 16 + (v1 \div 4)
                      [] OTHER -> (v0 % 4) * 64 + v1])

CHUNK_SIZE == 65535

Min(a, b) == IF a <= b THEN a ELSE b

\* String.fromCharCode.apply over the chunks of the array, concatenated.
RECURSIVE BinaryString(_, _)
BinaryString(bytes, i) ==
    IF i >= Len(bytes) THEN <<>>
    ELSE SubSeq(bytes, i + 1, Min(i + CHUNK_SIZE, Len(bytes)))
            \o BinaryString(bytes, i + CHUNK_SIZE)

\* Mutant: only the first chunk is converted.
uint8ArrayToBase64_FirstChunkOnly(bytes) ==
    btoa(SubSeq(bytes, 1, Min(CHUNK_SIZE, Len(bytes))))

uint8ArrayToBase64(bytes) == btoa(BinaryString(bytes, 0))

-----------------------------------------------------------------------------
(* XChaCha20-Poly1305, as an ideal AEAD cipher: the ciphertext is the      *)
(* message under a keystream set by (key, nonce), followed by a 16-byte    *)
(* tag; decryption verifies exactly the (key, nonce, ciphertext) triples    *)
(* that encryption has produced.                                           *)

RECURSIVE Xor(_, _)
Xor(a, b) ==
    IF a = 0 THEN b
    ELSE IF b = 0 THEN a
    ELSE 2 * Xor(a \div 2, b \div 2) + ((a + b) % 2)

KeyStream(key, nonce, i) ==
    (key[1 + ((i - 1) % KEYBYTES)] * 3 + nonce[1 + ((i - 1) % NPUBBYTES)] * 5 + i * 17 + 1) % 256

XorStream(m, key, nonce) == [i \in 1..Len(m) |-> Xor(m[i], KeyStream(key, nonce, i))]

RECURSIVE SumBytes(_)
SumBytes(b) == IF b = <<>> THEN 0 ELSE Head(b) + SumBytes(Tail(b))

Tag(body, key, nonce) ==
    [j \in 1..ABYTES |->
        (SumBytes(body) + key[j] * 7 + key[j + ABYTES] * 3 + nonce[j] * 11 + j) % 256]

aead_encrypt(message, nonce, key) ==
    LET body == XorStream(message, key, nonce)
    IN  body \o Tag(body, key, nonce)

Sealing(ciphertext, nonce, key) == [key |-> key, nonce |-> nonce, ciphertext |-> ciphertext]

\* Mutant: the stream cipher alone, with no check of the tag.
aead_decrypt_Unauthenticated(ciphertext, nonce, key) ==
    BytesOk(XorStream(SubSeq(ciphertext, 1, Len(ciphertext) - ABYTES), key, nonce))

\* Throws unless the tag verifies.
aead_decrypt(ciphertext, nonce, key) ==
    IF Sealing(ciphertext, nonce, key) \in sealed
    THEN BytesOk(XorStream(SubSeq(ciphertext, 1, Len(ciphertext) - ABYTES), key, nonce))
    ELSE BytesFail

-----------------------------------------------------------------------------
(* encryptPaste, the payload encoding of publishPaste and fetchPaste, and  *)
(* decryptPaste                                                            *)

\* Mutant: the key is drawn once, at module level, and shared by every call.
encryptPaste_ModuleLevelKey(plaintext, seed) ==
    LET key == RandBytes(3, KEYBYTES)
        nonce == RandBytes(3 * seed + 1, NPUBBYTES)
        docIdBytes == RandBytes(3 * seed + 2, DOCIDBYTES)
    IN  [ciphertext |-> aead_encrypt(from_string(plaintext), nonce, key),
         nonce |-> nonce, key |-> key, docId |-> ToHex(docIdBytes)]

\* The three buffers encryptPaste draws from the random source, in order.
encryptPaste(plaintext, seed) ==
    LET key == RandBytes(3 * seed, KEYBYTES)
        nonce == RandBytes(3 * seed + 1, NPUBBYTES)
        docIdBytes == RandBytes(3 * seed + 2, DOCIDBYTES)
    IN  [ciphertext |-> aead_encrypt(from_string(plaintext), nonce, key),
         nonce |-> nonce, key |-> key, docId |-> ToHex(docIdBytes)]

\* Mutant: the ciphertext is written before the nonce.
EncodePayload_CiphertextFirst(nonce, ciphertext) == uint8ArrayToBase64(ciphertext \o nonce)

\* publishPaste: content = base64(nonce || ciphertext)
EncodePayload(nonce, ciphertext) == uint8ArrayToBase64(nonce \o ciphertext)

ErrInvalidEvent == [name |-> "InvalidEventError", message |-> "Invalid event format"]
ErrNotFound == [name |-> "NotFoundError", message |-> "Paste not found"]
NoError == [name |-> "", message |-> ""]

Fetched(n, c) == [ok |-> TRUE, error |-> NoError, nonce |-> n, ciphertext |-> c]
FetchFailed(e) == [ok |-> FALSE, error |-> e, nonce |-> NoBytes, ciphertext |-> NoBytes]

\* fetchPaste: decode the event content and split it at the nonce length.
DecodePayload(content) ==
    LET combined == atob(content)
    IN  IF ~combined.ok THEN FetchFailed(ErrInvalidEvent)
        ELSE IF Len(combined.bytes) < NPUBBYTES THEN FetchFailed(ErrInvalidEvent)
        ELSE Fetched(SubSeq(combined.bytes, 1, NPUBBYTES),
                     Slice(combined.bytes, NPUBBYTES))

DecryptionError(msg) == [name |-> "DecryptionError", message |-> msg]
ErrDecryptFailed == DecryptionError("Failed to decrypt: invalid key or corrupted data")

Decrypted(str) == [ok |-> TRUE, text |-> str, error |-> NoError]
DecryptFailed(e) == [ok |-> FALSE, text |-> <<>>, error |-> e]

\* Mutant: the nonce is checked before the key.
decryptPaste_NonceCheckedFirst(ciphertext, nonce, key) ==
    IF Len(nonce) # NPUBBYTES THEN DecryptFailed(DecryptionError("Invalid nonce length"))
    ELSE IF Len(key) # KEYBYTES THEN DecryptFailed(DecryptionError("Invalid key length"))
    ELSE IF Len(ciphertext) < ABYTES
         THEN DecryptFailed(DecryptionError("Invalid ciphertext length"))
    ELSE LET plaintext == aead_decrypt(ciphertext, nonce, key)
         IN  IF ~plaintext.ok THEN DecryptFailed(ErrDecryptFailed)
             ELSE IF ~to_string(plaintext.bytes).ok THEN DecryptFailed(ErrDecryptFailed)
             ELSE Decrypted(to_string(plaintext.bytes).text)

\* Mutant: a failure of the cipher is swallowed and an empty text returned.
decryptPaste_SwallowsFailure(ciphertext, nonce, key) ==
    IF Len(key) # KEYBYTES THEN DecryptFailed(DecryptionError("Invalid key length"))
    ELSE IF Len(nonce) # NPUBBYTES THEN DecryptFailed(DecryptionError("Invalid nonce length"))
    ELSE IF Len(ciphertext) < ABYTES
         THEN DecryptFailed(DecryptionError("Invalid ciphertext length"))
    ELSE LET plaintext == aead_decrypt(ciphertext, nonce, key)
         IN  IF ~plaintext.ok THEN Decrypted(<<>>)
             ELSE IF ~to_string(plaintext.bytes).ok THEN DecryptFailed(ErrDecryptFailed)
             ELSE Decrypted(to_string(plaintext.bytes).text)

\* Mutant: no catch block, what the cipher or the text decoder throws escapes.
decryptPaste_NoCatch(ciphertext, nonce, key) ==
    IF Len(key) # KEYBYTES THEN DecryptFailed(DecryptionError("Invalid key length"))
    ELSE IF Len(nonce) # NPUBBYTES THEN DecryptFailed(DecryptionError("Invalid nonce length"))
    ELSE IF Len(ciphertext) < ABYTES
         THEN DecryptFailed(DecryptionError("Invalid ciphertext length"))
    ELSE LET plaintext == aead_decrypt(ciphertext, nonce, key)
         IN  IF ~plaintext.ok
             THEN DecryptFailed([name |-> "Error",
                                 message |-> "ciphertext cannot be decrypted using that key"])
             ELSE IF ~to_string(plaintext.bytes).ok
             THEN DecryptFailed([name |-> "TypeError",
                                 message |-> "The encoded data was not valid."])
             ELSE Decrypted(to_string(plaintext.bytes).text)

decryptPaste(ciphertext, nonce, key) ==
    IF Len(key) # KEYBYTES THEN DecryptFailed(DecryptionError("Invalid key length"))
    ELSE IF Len(nonce) # NPUBBYTES THEN DecryptFailed(DecryptionError("Invalid nonce length"))
    ELSE IF Len(ciphertext) < ABYTES
         THEN DecryptFailed(DecryptionError("Invalid ciphertext length"))
    ELSE LET plaintext == aead_decrypt(ciphertext, nonce, key)
         IN  IF ~plaintext.ok THEN DecryptFailed(ErrDecryptFailed)
             ELSE IF ~to_string(plaintext.bytes).ok THEN DecryptFailed(ErrDecryptFailed)
             ELSE Decrypted(to_string(plaintext.bytes).text)

-----------------------------------------------------------------------------
(* Capability URL codec                                                    *)

ErrMissingKeyFragment == "Invalid URL: missing key fragment"
ErrInvalidKeyLength == "Invalid key length"
ErrInvalidKeyFormat == "Invalid key format"
ErrInvalidUrl == "TypeError: Invalid URL"

Parsed(d, k) == [ok |-> TRUE, error |-> "", docId |-> d, key |-> k]
ParseError(msg) == [ok |-> FALSE, error |-> msg, docId |-> <<>>, key |-> NoBytes]

\* Mutant: the key hex is put in the scheme-specific part.
buildCapabilityUrl_KeyInPath(docId, key) == NOSLOCK \o ToHex(key) \o <<ChHash>> \o docId

buildCapabilityUrl(docId, key) == NOSLOCK \o docId \o <<ChHash>> \o ToHex(key)

\* App.handleEncrypt: the route navigated to after a successful publish.
ShareTarget(id, encryptionKey) == <<ChSlash>> \o id \o <<ChHash>> \o ToHex(encryptionKey)

\* The address of that route, which is the web form of the link
\* (origin "/" docId "#" keyHex).
buildWebUrl(docId, key) == ORIGIN \o ShareTarget(docId, key)

\* Mutant: the hex check is made before the length check.
ValidateKeyHex_FormatFirst(docId, keyHex) ==
    IF ~IsHexString(keyHex) THEN ParseError(ErrInvalidKeyFormat)
    ELSE IF Len(keyHex) # KEYHEXLEN THEN ParseError(ErrInvalidKeyLength)
    ELSE Parsed(docId, FromHex(keyHex))

\* Length check, then hex check, then decoding: shared by both URL forms.
ValidateKeyHex(docId, keyHex) ==
    IF Len(keyHex) # KEYHEXLEN THEN ParseError(ErrInvalidKeyLength)
    ELSE IF ~IsHexString(keyHex) THEN ParseError(ErrInvalidKeyFormat)
    ELSE Parsed(docId, FromHex(keyHex))

\* new URL(url) for the inputs of the model: an absolute https URL
\* "https://" host [path] ["?" query] ["#" fragment]; anything else throws.
UrlHostEnd(rest) ==
    LET stops == {i \in 1..Len(rest) : rest[i] \in HostStops}
    IN  IF stops = {} THEN Len(rest) + 1
        ELSE CHOOSE i \in stops : \A j \in stops : i <= j

WebUrlValid(u) == StartsWith(u, HTTPS) /\ UrlHostEnd(Slice(u, Len(HTTPS))) > 1

\* URL.pathname
WebPathname(u) ==
    LET rest == Slice(u, Len(HTTPS))
        afterHost == Slice(rest, UrlHostEnd(rest) - 1)
        stops == {i \in 1..Len(afterHost) : afterHost[i] \in PathStops}
        end == IF stops = {} THEN Len(afterHost)
               ELSE (CHOOSE i \in stops : \A j \in stops : i <= j) - 1
        path == SubSeq(afterHost, 1, end)
    IN  IF path = <<>> THEN <<ChSlash>> ELSE path

\* URL.hash: "#" and the fragment, or "" when the fragment is absent or empty.
WebHash(u) ==
    LET frag == IF Includes(u, ChHash) THEN Slice(u, IndexOf(u, ChHash)) ELSE <<>>
    IN  IF frag = <<>> THEN <<>> ELSE <<ChHash>> \o frag

\* Mutant: the scheme prefix is cut one character short.
ParseCustomScheme_OffByOne(u) ==
    LET rest == Slice(u, 9)
    IN  ValidateKeyHex(SplitFirst(rest, ChHash), SplitSecond(rest, ChHash))

ParseCustomScheme(u) ==
    LET rest == Slice(u, 10)
    IN  ValidateKeyHex(SplitFirst(rest, ChHash), SplitSecond(rest, ChHash))

ParseWebForm(u) ==
    IF ~WebUrlValid(u) THEN ParseError(ErrInvalidUrl)
    ELSE ValidateKeyHex(Slice(WebPathname(u), 1), Slice(WebHash(u), 1))

parseCapabilityUrl(u) ==
    IF ~Includes(u, ChHash) THEN ParseError(ErrMissingKeyFragment)
    ELSE IF StartsWith(u, NOSLOCK) THEN ParseCustomScheme(u)
    ELSE ParseWebForm(u)

-----------------------------------------------------------------------------
(* The paste codec, end to end: encryptPaste, the content publishPaste     *)
(* makes, what fetchPaste makes of it, decryptPaste                        *)

\* Plaintexts: one-, two-, three- and four-byte characters ("H", e-acute, the
\* euro sign, a lock emoji), the empty text included.
CodePoints == {72, 233, 8364, 128274}

Plaintexts == UNION {[1..n -> CodePoints] : n \in 0..MaxTextLen}

\* Byte strings that are not UTF-8: a stray 0xFF, a cut two-byte character,
\* an encoded surrogate, a stray continuation byte.
RawTexts == {<<255>>, <<195>>, <<237, 160, 128>>, <<72, 128>>}

FlipBit(bytes, i, bit) == [bytes EXCEPT ![i] = Xor(bytes[i], 2 ^ bit)]

WrongKeys(key) ==
    ({Fill(0, KEYBYTES), Fill(18, KEYBYTES), FlipBit(key, 1, 0), FlipBit(key, KEYBYTES, 7)}
        \cup {RandBytes(3 * s, KEYBYTES) : s \in 1..(NSeeds + 1)}) \ {key}

Corruptions(ciphertext) ==
    {SubSeq(ciphertext, 1, Len(ciphertext) - 1), ciphertext \o <<0>>,
     Fill(0, Len(ciphertext)), Tail(ciphertext) \o <<Head(ciphertext)>>} \ {ciphertext}

NoPlain == [text |-> <<>>, bytes |-> NoBytes, by |-> "none"]
NoPaste == [ciphertext |-> NoBytes, nonce |-> NoBytes, key |-> NoBytes, docId |-> <<>>]
NoIn == [ciphertext |-> NoBytes, nonce |-> NoBytes, key |-> NoBytes, tamper |-> "none"]

\* sodium.memzero: every byte of the buffer set to zero
memzero(bytes) == Fill(0, Len(bytes))

\* The buffers encryptPaste made that held the key or the plaintext bytes, as
\* they are when it returns: the bytes of from_string(plaintext), handed to
\* the cipher and left as they are. (key is the caller's from then on.)
encryptPasteBuffers(plaintext) == {from_string(plaintext)}

\* The same for decryptPaste: `plaintext`, wiped in the finally block when the
\* cipher returned it, on a return and on a throw of to_string alike.
decryptPasteBuffers(ciphertext, nonce, key) ==
    IF Len(key) # KEYBYTES \/ Len(nonce) # NPUBBYTES \/ Len(ciphertext) < ABYTES
    THEN {}
    ELSE LET plaintext == aead_decrypt(ciphertext, nonce, key)
         IN  IF plaintext.ok THEN {memzero(plaintext.bytes)} ELSE {}

\* The libsodium functions one call of decryptPaste invokes, in order: none
\* when a length check throws; the cipher alone when it throws; the cipher,
\* to_string and, in the finally block, memzero when the cipher returns.
CIPHER == "crypto_aead_xchacha20poly1305_ietf_decrypt"

decryptPasteCalls(ciphertext, nonce, key) ==
    IF Len(key) # KEYBYTES THEN <<>>
    ELSE IF Len(nonce) # NPUBBYTES THEN <<>>
    ELSE IF Len(ciphertext) < ABYTES THEN <<>>
    ELSE IF aead_decrypt(ciphertext, nonce, key).ok
         THEN <<CIPHER, "to_string", "memzero">>
         ELSE <<CIPHER>>

\* Arguments of other lengths than decryptPaste expects: keys of 0, 31 and 33
\* bytes, nonces of 0, 23 and 25 bytes, ciphertexts of 0 and 15 bytes.
BadKeys(key) == {<<>>, SubSeq(key, 1, KEYBYTES - 1), key \o <<0>>}
BadNonces(nonce) == {<<>>, SubSeq(nonce, 1, NPUBBYTES - 1), nonce \o <<0>>}
ShortCiphertexts(ciphertext) == {<<>>, SubSeq(ciphertext, 1, ABYTES - 1)}

NoLarge == [bytes |-> 0, characters |-> 0, asUnchunked |-> FALSE, fetchedBack |-> FALSE]

InitCodec ==
    /\ cPc = "idle"
    /\ cPlain = NoPlain
    /\ cPaste = NoPaste
    /\ cContent = <<>>
    /\ cFetched = FetchFailed(NoError)
    /\ cIn = NoIn
    /\ cOut = DecryptFailed(NoError)
    /\ cHeap = {}
    /\ cCalls = <<>>
    /\ cLarge = NoLarge
    /\ sealed = {}

\* Editor.handleEncrypt -> encryptPaste(content)
CodecEncrypt ==
    /\ cPc = "idle"
    /\ \E plaintext \in Plaintexts, seed \in 1..NSeeds :
          LET paste == encryptPaste(plaintext, seed)
          IN  /\ cPlain' = [text |-> plaintext, bytes |-> from_string(plaintext),
                            by |-> "encryptPaste"]
              /\ cPaste' = paste
              /\ sealed' = sealed \cup {Sealing(paste.ciphertext, paste.nonce, paste.key)}
              /\ cHeap' = encryptPasteBuffers(plaintext)
    /\ cPc' = "encrypted"
    /\ UNCHANGED <<cContent, cFetched, cIn, cOut, cCalls, cLarge, notCodec>>

\* Another writer seals bytes that are not UTF-8 text with the same cipher.
CodecForeignSeal ==
    /\ cPc = "idle"
    /\ \E raw \in RawTexts, seed \in 1..NSeeds :
          LET key == RandBytes(3 * seed, KEYBYTES)
              nonce == RandBytes(3 * seed + 1, NPUBBYTES)
              ciphertext == aead_encrypt(raw, nonce, key)
          IN  /\ cPlain' = [text |-> <<>>, bytes |-> raw, by |-> "foreign"]
              /\ cPaste' = [ciphertext |-> ciphertext, nonce |-> nonce, key |-> key,
                            docId |-> ToHex(RandBytes(3 * seed + 2, DOCIDBYTES))]
              /\ sealed' = sealed \cup {Sealing(ciphertext, nonce, key)}
    /\ cPc' = "encrypted"
    /\ UNCHANGED <<cContent, cFetched, cIn, cOut, cHeap, cCalls, cLarge, notCodec>>

\* publishPaste: the event content
CodecEncode ==
    /\ cPc = "encrypted"
    /\ cContent' = EncodePayload(cPaste.nonce, cPaste.ciphertext)
    /\ cPc' = "encoded"
    /\ UNCHANGED <<cPlain, cPaste, cFetched, cIn, cOut, cHeap, cCalls, cLarge, sealed, notCodec>>

\* fetchPaste: the (nonce, ciphertext) pair read from the event content
CodecDecode ==
    /\ cPc = "encoded"
    /\ cFetched' = DecodePayload(cContent)
    /\ cPc' = "decoded"
    /\ UNCHANGED <<cPlain, cPaste, cContent, cIn, cOut, cHeap, cCalls, cLarge, sealed, notCodec>>

Decrypt(ciphertext, nonce, key, tamper) ==
    /\ cIn' = [ciphertext |-> ciphertext, nonce |-> nonce, key |-> key, tamper |-> tamper]
    /\ cOut' = decryptPaste(ciphertext, nonce, key)
    /\ cHeap' = decryptPasteBuffers(ciphertext, nonce, key)
    /\ cCalls' = decryptPasteCalls(ciphertext, nonce, key)
    /\ cPc' = "decrypted"
    /\ UNCHANGED <<cPlain, cPaste, cContent, cFetched, cLarge, sealed, notCodec>>

\* Reader.load -> decryptPaste(result.ciphertext, result.nonce, key) with the
\* key of the link
CodecDecrypt ==
    /\ cPc = "decoded"
    /\ cFetched.ok
    /\ Decrypt(cFetched.ciphertext, cFetched.nonce, cPaste.key, "none")

\* The same call with one bit of the ciphertext changed
CodecDecryptFlippedCiphertext ==
    /\ cPc = "decoded"
    /\ cFetched.ok
    /\ \E i \in 1..Len(cFetched.ciphertext), bit \in 0..7 :
          Decrypt(FlipBit(cFetched.ciphertext, i, bit), cFetched.nonce, cPaste.key,
                  "ciphertext bit")

\* The same call with one bit of the nonce changed
CodecDecryptFlippedNonce ==
    /\ cPc = "decoded"
    /\ cFetched.ok
    /\ \E i \in 1..Len(cFetched.nonce), bit \in 0..7 :
          Decrypt(cFetched.ciphertext, FlipBit(cFetched.nonce, i, bit), cPaste.key,
                  "nonce bit")

\* The same call with another key
CodecDecryptWrongKey ==
    /\ cPc = "decoded"
    /\ cFetched.ok
    /\ \E k2 \in WrongKeys(cPaste.key) :
          Decrypt(cFetched.ciphertext, cFetched.nonce, k2, "key")

\* The same call with a ciphertext cut short, extended, zeroed or rotated
CodecDecryptCorrupted ==
    /\ cPc = "decoded"
    /\ cFetched.ok
    /\ \E c2 \in Corruptions(cFetched.ciphertext) :
          Decrypt(c2, cFetched.nonce, cPaste.key, "corrupted")

\* Ciphertexts as publishPaste may be handed them, any bytes of any length:
\* none, one, two and three bytes (each padding of base64).
RawCiphertexts == {<<>>, <<255>>, <<0, 255>>, <<250, 251, 252>>}

\* Ciphertexts that put nonce and ciphertext together one byte below, at and
\* one byte above CHUNK_SIZE.
LargeCiphertexts == {RandBytes(5, CHUNK_SIZE - NPUBBYTES + d) : d \in {-1, 0, 1}}

\* publishPaste(docId, nonce, ciphertext): the event content
CodecEncodeRaw ==
    /\ cPc = "idle"
    /\ \E seed \in 1..NSeeds, ciphertext \in RawCiphertexts :
          LET nonce == RandBytes(3 * seed + 1, NPUBBYTES)
          IN  /\ cPaste' = [ciphertext |-> ciphertext, nonce |-> nonce, key |-> NoBytes,
                            docId |-> ToHex(RandBytes(3 * seed + 2, DOCIDBYTES))]
              /\ cContent' = EncodePayload(nonce, ciphertext)
    /\ cPlain' = [text |-> <<>>, bytes |-> NoBytes, by |-> "raw"]
    /\ cPc' = "raw_encoded"
    /\ UNCHANGED <<cFetched, cIn, cOut, cHeap, cCalls, cLarge, sealed, notCodec>>

\* fetchPaste: the (nonce, ciphertext) pair read from that content
CodecDecodeRaw ==
    /\ cPc = "raw_encoded"
    /\ cFetched' = DecodePayload(cContent)
    /\ cPc' = "raw_decoded"
    /\ UNCHANGED <<cPlain, cPaste, cContent, cIn, cOut, cHeap, cCalls, cLarge, sealed, notCodec>>

\* publishPaste and fetchPaste on a payload about one chunk long. The content
\* is some 87,000 characters, so the state keeps its length and what the
\* comparisons of it gave: with btoa of the bytes converted in one piece,
\* and of fetchPaste's result with the nonce and ciphertext publishPaste had.
CodecLargePayload ==
    /\ cPc = "idle"
    /\ \E seed \in 1..NSeeds, ciphertext \in LargeCiphertexts :
          LET nonce == RandBytes(3 * seed + 1, NPUBBYTES)
              content == EncodePayload(nonce, ciphertext)
          IN  cLarge' = [bytes |-> Len(nonce) + Len(ciphertext),
                         characters |-> Len(content),
                         asUnchunked |-> content = btoa(nonce \o ciphertext),
                         fetchedBack |-> DecodePayload(content) = Fetched(nonce, ciphertext)]
    /\ cPc' = "large_compared"
    /\ UNCHANGED <<cPlain, cPaste, cContent, cFetched, cIn, cOut, cHeap, cCalls, sealed, notCodec>>

\* The same call with a key, a nonce or a ciphertext of a wrong length, alone
\* or together
CodecDecryptBadLengths ==
    /\ cPc = "decoded"
    /\ cFetched.ok
    /\ \E k2 \in BadKeys(cPaste.key) \cup {cPaste.key},
          n2 \in BadNonces(cFetched.nonce) \cup {cFetched.nonce},
          c2 \in ShortCiphertexts(cFetched.ciphertext) \cup {cFetched.ciphertext} :
          /\ <<k2, n2, c2>> # <<cPaste.key, cFetched.nonce, cFetched.ciphertext>>
          /\ Decrypt(c2, n2, k2, "lengths")

NextCodec ==
    \/ CodecEncrypt
    \/ CodecForeignSeal
    \/ CodecEncode
    \/ CodecDecode
    \/ CodecDecrypt
    \/ CodecDecryptFlippedCiphertext
    \/ CodecDecryptFlippedNonce
    \/ CodecDecryptWrongKey
    \/ CodecDecryptCorrupted
    \/ CodecDecryptBadLengths
    \/ CodecEncodeRaw
    \/ CodecDecodeRaw
    \/ CodecLargePayload

-----------------------------------------------------------------------------
(* Inputs of the URL codec                                                 *)

Keys == {Fill(0, KEYBYTES), Fill(18, KEYBYTES)}
            \cup {RandBytes(s, KEYBYTES) : s \in 1..NSeeds}

\* 64-hex-character document identifiers, lowercase and uppercase.
DocIds ==
    LET lower == {ToHex(Fill(170, DOCIDBYTES))}
                    \cup {ToHex(RandBytes(s + 100, DOCIDBYTES)) : s \in 1..NSeeds}
    IN  lower \cup {ToUpper(d) : d \in lower}

\* Texts placed after the first '#': well-formed keys in both cases, keys of the
\* wrong length, keys with a non-hex character, both at once, and texts that
\* hold a further '#'.
KeyTexts(k) ==
    LET h == ToHex(k)
    IN  { h, ToUpper(h),
          SubSeq(h, 1, 63), h \o <<HexDigit(0)>>, <<>>,
          SubSeq(h, 1, 63) \o NonHex, NonHex \o SubSeq(h, 2, 64),
          SubSeq(h, 1, 62) \o NonHex, h \o NonHex,
          h \o <<ChHash>> \o SubSeq(h, 1, 2),
          SubSeq(h, 1, 32) \o <<ChHash>> \o SubSeq(h, 1, 31),
          SubSeq(h, 1, 63) \o <<ChHash>> }

UrlForms == {"custom", "web", "bare"}

UrlPrefix(form) ==
    CASE form = "custom" -> NOSLOCK
      [] form = "web" -> ORIGIN \o <<ChSlash>>
      [] OTHER -> <<>>

NoUrlIn ==
    [docId |-> <<>>, key |-> NoBytes, form |-> "none", text |-> <<>>,
     hash |-> FALSE, by |-> "none"]

InitUrl ==
    /\ urlPc = "idle"
    /\ urlIn = NoUrlIn
    /\ url = <<>>
    /\ navTarget = <<>>
    /\ urlOut = ParseError("")

\* buildCapabilityUrl(docId, key) and the navigation target for the same paste.
UrlBuild ==
    /\ urlPc = "idle"
    /\ \E d \in DocIds, k \in Keys :
          /\ urlIn' = [docId |-> d, key |-> k, form |-> "custom",
                       text |-> ToHex(k), hash |-> TRUE, by |-> "build"]
          /\ url' = buildCapabilityUrl(d, k)
          /\ navTarget' = ShareTarget(d, k)
    /\ urlPc' = "built"
    /\ UNCHANGED <<urlOut, notUrl>>

\* The link as the address bar shows it after App navigates to the share route.
UrlBuildWeb ==
    /\ urlPc = "idle"
    /\ \E d \in DocIds, k \in Keys :
          /\ urlIn' = [docId |-> d, key |-> k, form |-> "web",
                       text |-> ToHex(k), hash |-> TRUE, by |-> "navigate"]
          /\ url' = buildWebUrl(d, k)
          /\ navTarget' = ShareTarget(d, k)
    /\ urlPc' = "built"
    /\ UNCHANGED <<urlOut, notUrl>>

\* A link typed or pasted by a user: any form, with or without '#'.
UrlType ==
    /\ urlPc = "idle"
    /\ \E d \in DocIds, k \in Keys, f \in UrlForms, withHash \in BOOLEAN :
        \E t \in (IF withHash THEN KeyTexts(k) ELSE {ToHex(k)}) :
          /\ urlIn' = [docId |-> d, key |-> k, form |-> f, text |-> t,
                       hash |-> withHash, by |-> "typed"]
          /\ url' = UrlPrefix(f) \o d \o (IF withHash THEN <<ChHash>> ELSE <<>>) \o t
    /\ navTarget' = <<>>
    /\ urlPc' = "built"
    /\ UNCHANGED <<urlOut, notUrl>>

UrlParse ==
    /\ urlPc = "built"
    /\ urlOut' = parseCapabilityUrl(url)
    /\ urlPc' = "parsed"
    /\ UNCHANGED <<urlIn, url, navTarget, notUrl>>

UrlReset ==
    /\ urlPc = "parsed"
    /\ urlPc' = "idle"
    /\ urlIn' = NoUrlIn
    /\ url' = <<>>
    /\ navTarget' = <<>>
    /\ urlOut' = ParseError("")
    /\ UNCHANGED notUrl

NextUrl == UrlBuild \/ UrlBuildWeb \/ UrlType \/ UrlParse \/ UrlReset

-----------------------------------------------------------------------------
(* Relays, events and the messages clients send them                       *)

Relays == 1..NRelays

PASTE_KIND == 30078

\* "noslock", the value of the client tag
ClientTag == <<110, 111, 115, 108, 111, 99, 107>>

\* generateKeypair: the ephemeral signing key of one publish, a draw of the
\* random source of its own.
generateKeypair == [privateKey |-> ToHex(RandBytes(0, KEYBYTES))]

\* getPublicKey: a function of the signing key alone.
getPublicKey(privateKey) ==
    LET secret == FromHex(privateKey)
    IN  ToHex([i \in 1..32 |-> (5 * secret[i] + 1) % 256])

\* createEvent({kind, content, tags}, pubkey)
createEvent(content, docId, pubkey) ==
    [kind |-> PASTE_KIND, content |-> content,
     tags |-> [d |-> docId, client |-> ClientTag], pubkey |-> pubkey]

\* getEventHash: a digest of the serialised unsigned event.
getEventHash(unsignedEvent) ==
    LET sum == SumBytes(unsignedEvent.pubkey) + unsignedEvent.kind
                 + SumBytes(unsignedEvent.tags.d) + SumBytes(unsignedEvent.tags.client)
                 + SumBytes(unsignedEvent.content)
    IN  ToHex([i \in 1..32 |-> (sum + 11 * i) % 256])

\* signEvent: a function of the event id and the signing key.
signEvent(id, privateKey) ==
    LET sum == SumBytes(id)
        secret == FromHex(privateKey)
    IN  ToHex([i \in 1..64 |-> (sum + 3 * secret[((i - 1) % 32) + 1] + i) % 256])

NoSignedEvent ==
    [kind |-> 0, content |-> <<>>, tags |-> [d |-> <<>>, client |-> <<>>],
     pubkey |-> <<>>, id |-> <<>>, sig |-> <<>>]

NoFilter == [kinds |-> {}, d |-> {}]

\* An EVENT message carrying a signed event, a REQ message carrying a filter.
EventMessage(r, ev) == [type |-> "EVENT", relay |-> r, event |-> ev, filter |-> NoFilter]
ReqMessage(r, f) == [type |-> "REQ", relay |-> r, event |-> NoSignedEvent, filter |-> f]

\* fetchPaste: the filter { kinds: [30078], "#d": [docId] }
FetchFilter(docId) == [kinds |-> {PASTE_KIND}, d |-> {docId}]

Matches(ev, f) == ev.kind \in f.kinds /\ ev.tags.d \in f.d

\* Mutant: the key is passed where the nonce belongs.
AppPublishCall_KeyAsNonce(id, encryptionKey, cipher, non) ==
    [docId |-> id, nonce |-> encryptionKey, ciphertext |-> cipher]

\* App.handleEncrypt: publishPaste(id, non, cipher)
AppPublishCall(id, encryptionKey, cipher, non) ==
    [docId |-> id, nonce |-> non, ciphertext |-> cipher]

\* publishPaste up to pool.publish: the signed event.
SignedEvent(docId, nonce, ciphertext) ==
    LET content == EncodePayload(nonce, ciphertext)
        keys == generateKeypair
        pubkey == getPublicKey(keys.privateKey)
        unsignedEvent == createEvent(content, docId, pubkey)
        id == getEventHash(unsignedEvent)
        sig == signEvent(id, keys.privateKey)
    IN  [kind |-> unsignedEvent.kind, content |-> unsignedEvent.content,
         tags |-> unsignedEvent.tags, pubkey |-> unsignedEvent.pubkey,
         id |-> id, sig |-> sig]

-----------------------------------------------------------------------------
(* Reader and fetchPaste: helpers                                          *)

ErrInvalidDocId ==
    [name |-> "Error", message |-> "Invalid docId format: must be 64-character hex string"]
ErrFetchTimeout == [name |-> "Error", message |-> "Relay fetch timeout"]

\* /^[a-f0-9]{64}$/i
IsHex64(s) == Len(s) = 64 /\ IsHexString(s)

\* Mutant: only the length of the docId is checked.
ValidDocId_LengthOnly(docId) == Len(docId) = 64

\* fetchPaste: /^[a-f0-9]{64}$/i.test(docId)
ValidDocId(docId) == IsHex64(docId)

\* hexToKey: the key, or a throw (ok = FALSE)
hexToKey(hex) ==
    IF ~IsHex64(hex) THEN [ok |-> FALSE, key |-> NoBytes]
    ELSE [ok |-> TRUE, key |-> FromHex(hex)]

\* encodeNoteId: the bech32 form of an event id, here the id under its prefix
encodeNoteId(id) == <<110, 111, 116, 101, 49>> \o id

\* `event` of fetchPaste when no event came
NoEvent == [found |-> FALSE, content |-> <<>>, id |-> <<>>]

\* fetchPaste after Promise.race settled with the pool's answer: `events` is
\* what pool.get chose from, empty when it resolved to null.
FetchOutcomes(events) ==
    IF events = {} THEN {FetchFailed(ErrNotFound)}
    ELSE {DecodePayload(content) : content \in events}

\* Mutant: a missing paste is shown as a decryption failure.
ReaderStateFor_NotFoundAsDecryptError(error) ==
    IF error.name = "NotFoundError" THEN "decrypt_error"
    ELSE IF error.name = "InvalidEventError" THEN "decrypt_error"
    ELSE "fetch_error"

\* Reader.load: the catch around fetchPaste
\* Mutant: a malformed record is shown as a network error.
ReaderStateFor_InvalidEventAsFetchError(error) ==
    IF error.name = "NotFoundError" THEN "not_found"
    ELSE "fetch_error"

ReaderStateFor(error) ==
    IF error.name = "NotFoundError" THEN "not_found"
    ELSE IF error.name = "InvalidEventError" THEN "decrypt_error"
    ELSE "fetch_error"

-----------------------------------------------------------------------------
(* Inputs of the write flow and the read flow                              *)

\* Texts the Editor accepts (content.trim() is not empty).
FlowTexts == {<<72, 105>>, <<8364, 128274>>}

\* The key and the docId of the paste the writer creates: the first draws of
\* the random source.
LinkKey == encryptPaste(<<>>, 1).key
LinkDocId == encryptPaste(<<>>, 1).docId

\* Links a reader opens: the paste's link, the same with another key, without a
\* fragment, with a malformed key, a link to a paste nobody published, and
\* links whose docId is not 64 hex characters (too short, and 64 characters
\* with one that is not hex).
ReaderLinks ==
    {[docId |-> LinkDocId, hash |-> <<ChHash>> \o ToHex(LinkKey)],
     [docId |-> LinkDocId, hash |-> <<ChHash>> \o ToHex(Fill(0, KEYBYTES))],
     [docId |-> LinkDocId, hash |-> <<>>],
     [docId |-> LinkDocId, hash |-> <<ChHash>> \o SubSeq(ToHex(LinkKey), 1, 63) \o NonHex],
     [docId |-> ToHex(Fill(170, DOCIDBYTES)), hash |-> <<ChHash>> \o ToHex(LinkKey)],
     [docId |-> SubSeq(LinkDocId, 1, 63), hash |-> <<ChHash>> \o ToHex(LinkKey)],
     [docId |-> SubSeq(LinkDocId, 1, 63) \o NonHex, hash |-> <<ChHash>> \o ToHex(LinkKey)]}

\* What another client seals under a key and a nonce of its own.
ForeignSealing ==
    LET key == RandBytes(9, KEYBYTES)
        nonce == RandBytes(10, NPUBBYTES)
    IN  Sealing(aead_encrypt(from_string(<<72>>), nonce, key), nonce, key)

\* Event contents other clients publish under the paste's docId: not base64,
\* shorter than a nonce, a nonce with less than a tag after it, and a payload
\* sealed under another key.
ForeignContents ==
    {<<33, 33>>,
     uint8ArrayToBase64(Fill(1, 10)),
     uint8ArrayToBase64(RandBytes(7, NPUBBYTES + 6)),
     EncodePayload(ForeignSealing.nonce, ForeignSealing.ciphertext)}

\* The writer's own payload cut short by one byte, republished by that client
TruncatedContents ==
    IF wEvent = NoSignedEvent THEN {}
    ELSE {EncodePayload(wPaste.nonce,
                        SubSeq(wPaste.ciphertext, 1, Len(wPaste.ciphertext) - 1))}

\* The signing key of that client
ForeignPrivateKey == ToHex(RandBytes(11, KEYBYTES))

ForeignEvent(content) ==
    LET unsignedEvent == [kind |-> PASTE_KIND, content |-> content,
                          tags |-> [d |-> LinkDocId, client |-> <<>>],
                          pubkey |-> getPublicKey(ForeignPrivateKey)]
        id == getEventHash(unsignedEvent)
    IN  [kind |-> unsignedEvent.kind, content |-> unsignedEvent.content,
         tags |-> unsignedEvent.tags, pubkey |-> unsignedEvent.pubkey,
         id |-> id, sig |-> signEvent(id, ForeignPrivateKey)]

\* The events pool.get may have resolved to when fetchPaste settles with
\* `outcome`: none on a timeout or on null, else one whose content gives it.
PoolGot(outcome) ==
    IF outcome = FetchFailed(ErrFetchTimeout) \/ got = {} THEN {NoEvent}
    ELSE LET events == {ev \in UNION {store[r] : r \in Relays} :
                           /\ Matches(ev, FetchFilter(rDocId))
                           /\ ev.content \in got
                           /\ DecodePayload(ev.content) = outcome}
         IN  {[found |-> TRUE, content |-> ev.content, id |-> ev.id] : ev \in events}

\* What fetchPaste logs once Promise.race settled: nothing when the timer
\* won, on null the docId, else the note id and the docId, and the content
\* itself when it is too short.
FetchLogs(event, outcome) ==
    IF outcome = FetchFailed(ErrFetchTimeout) THEN {}
    ELSE IF ~event.found THEN {rDocId}
    ELSE {encodeNoteId(event.id), rDocId}
         \cup (LET combined == atob(event.content)
               IN  IF combined.ok /\ Len(combined.bytes) < NPUBBYTES
                   THEN {event.content} ELSE {})

InitFlow ==
    /\ wPc = "idle"
    /\ wText = <<>>
    /\ wPaste = NoPaste
    /\ appDocId = <<>>
    /\ capabilityUrl = <<>>
    /\ location = <<ChSlash>>
    /\ wEvent = NoSignedEvent
    /\ pub = [r \in Relays |-> "idle"]
    /\ pubPool = "none"
    /\ store = [r \in Relays |-> {}]
    /\ wire = {}
    /\ rPc = "unmounted"
    /\ rDocId = <<>>
    /\ rHash = <<>>
    /\ rKey = NoBytes
    /\ rState = "fetching"
    /\ rContent = <<>>
    /\ rOut = DecryptFailed(NoError)
    /\ cancelled = FALSE
    /\ fPc = "idle"
    /\ fResult = FetchFailed(NoError)
    /\ query = [r \in Relays |-> "idle"]
    /\ got = {}
    /\ fetchPool = "none"
    /\ fEvent = NoEvent
    /\ relinks = 0
    /\ console = {}

-----------------------------------------------------------------------------
(* Write flow: Editor.handleEncrypt, App.handleEncrypt, publishPaste       *)

WriterAtRest == wPc \in {"idle", "published", "publish_failed"}

\* Editor.handleEncrypt: await encryptPaste(content), then the four fields of
\* the result are logged.
EditorHandleEncrypt ==
    /\ wPc = "idle"
    /\ rPc = "unmounted"
    /\ \E text \in FlowTexts :
          LET paste == encryptPaste(text, 1)
          IN  /\ wText' = text
              /\ wPaste' = paste
              /\ sealed' = sealed \cup {Sealing(paste.ciphertext, paste.nonce, paste.key)}
              /\ console' = console \cup {paste.docId, paste.key, paste.ciphertext, paste.nonce}
    /\ wPc' = "encrypted"
    /\ UNCHANGED <<appDocId, capabilityUrl, location, wEvent, pub, pubPool,
                   readVars, store, wire, notFlow>>

\* onEncrypt -> App.handleEncrypt -> publishPaste, up to pool.publish: the link
\* is built and kept in App state, the event is made, signed and sent to
\* every relay.
AppHandleEncrypt ==
    /\ wPc = "encrypted"
    /\ LET call == AppPublishCall(wPaste.docId, wPaste.key, wPaste.ciphertext, wPaste.nonce)
           signedEvent == SignedEvent(call.docId, call.nonce, call.ciphertext)
       IN  /\ capabilityUrl' = buildCapabilityUrl(wPaste.docId, wPaste.key)
           /\ appDocId' = wPaste.docId
           /\ wEvent' = signedEvent
           /\ wire' = wire \cup {EventMessage(r, signedEvent) : r \in Relays}
           /\ console' = console \cup {wPaste.docId, encodeNoteId(signedEvent.id), call.docId}
    /\ pub' = [r \in Relays |-> "pending"]
    /\ pubPool' = "open"
    /\ wPc' = "publishing"
    /\ UNCHANGED <<wText, wPaste, location, readVars, store, sealed, notFlow>>

\* A relay stores the event and acknowledges it (also after the publisher has
\* stopped waiting).
RelayAccept(r) ==
    /\ pub[r] = "pending"
    /\ rPc = "unmounted"
    /\ store' = [store EXCEPT ![r] = @ \cup {wEvent}]
    /\ pub' = [pub EXCEPT ![r] = "ok"]
    /\ UNCHANGED <<wPc, wText, wPaste, appDocId, capabilityUrl, location, wEvent,
                   pubPool, readVars, wire, console, sealed, notFlow>>

\* A relay refuses the event or cannot be reached: { success: false, reason }.
RelayReject(r) ==
    /\ pub[r] = "pending"
    /\ rPc = "unmounted"
    /\ pub' = [pub EXCEPT ![r] = "failed"]
    /\ UNCHANGED <<wPc, wText, wPaste, appDocId, capabilityUrl, location, wEvent,
                   pubPool, readVars, store, wire, console, sealed, notFlow>>

\* Promise.all(publishPromises) wins the race: publishPaste counts the
\* acknowledgements, closes its pool and logs the note id, and App logs the
\* share route and navigates to it, where Share logs the docId; or App logs
\* the error.
PublishSettled ==
    /\ wPc = "publishing"
    /\ \A r \in Relays : pub[r] # "pending"
    /\ LET successful == Cardinality({r \in Relays : pub[r] = "ok"})
       IN  IF successful = 0
           THEN wPc' = "publish_failed" /\ UNCHANGED <<location, console>>
           ELSE /\ wPc' = "published"
                /\ IF StartsWith(location, <<ChSlash>> \o wPaste.docId)
                   THEN /\ location' = location
                        /\ console' = console \cup {encodeNoteId(wEvent.id)}
                   ELSE /\ location' = ShareTarget(wPaste.docId, wPaste.key)
                        /\ console' = console \cup {encodeNoteId(wEvent.id),
                                                    ShareTarget(wPaste.docId, wPaste.key),
                                                    appDocId}
    /\ pubPool' = "closed"
    /\ UNCHANGED <<wText, wPaste, appDocId, capabilityUrl, wEvent, pub,
                   readVars, store, wire, sealed, notFlow>>

\* The 10 s timer wins the race: publishPaste throws "Publish timeout".
PublishTimeout ==
    /\ wPc = "publishing"
    /\ \E r \in Relays : pub[r] = "pending"
    /\ wPc' = "publish_failed"
    /\ pubPool' = "closed"
    /\ UNCHANGED <<wText, wPaste, appDocId, capabilityUrl, location, wEvent, pub,
                   readVars, store, wire, console, sealed, notFlow>>

\* Another client publishes an event of its own under the paste's docId, once,
\* to one relay (the relays being alike, the first).
ForeignPublish ==
    /\ WriterAtRest
    /\ rPc = "unmounted"
    /\ \E content \in ForeignContents \cup TruncatedContents :
          /\ \A r \in Relays : \A ev \in store[r] : ev.pubkey = wEvent.pubkey
          /\ store' = [store EXCEPT ![CHOOSE r \in Relays : \A r2 \in Relays : r <= r2] =
                            @ \cup {ForeignEvent(content)}]
          /\ sealed' = IF content = EncodePayload(ForeignSealing.nonce, ForeignSealing.ciphertext)
                       THEN sealed \cup {ForeignSealing}
                       ELSE sealed
    /\ UNCHANGED <<writeVars, readVars, wire, console, notFlow>>

-----------------------------------------------------------------------------
(* Read flow: Reader.load, fetchPaste, decryptPaste                        *)

\* The effect runs load() up to its first await: a link without docId or
\* without fragment ends at once.
ReaderMount ==
    /\ rPc = "unmounted"
    /\ WriterAtRest
    /\ \A r \in Relays : pub[r] # "pending"
    /\ \E link \in ReaderLinks :
          /\ rDocId' = link.docId
          /\ rHash' = link.hash
          /\ IF link.docId = <<>> \/ link.hash = <<>>
             THEN rState' = "decrypt_error" /\ rPc' = "finished"
             ELSE rState' = rState /\ rPc' = "awaitKey"
    /\ cancelled' = FALSE
    /\ UNCHANGED <<rKey, rContent, rOut, fPc, fResult, query, got, fetchPool, fEvent, relinks,
                   writeVars, store, wire, console, sealed, notFlow>>

\* hexToKey settled. On a throw load() ends; else it shows "fetching" and calls
\* fetchPaste, which rejects a malformed docId before any relay is contacted
\* and otherwise opens a pool and sends the filter to every relay.
ReaderKeyReady ==
    /\ rPc = "awaitKey"
    /\ LET keyHex == Slice(rHash, 1)
           key == hexToKey(keyHex)
       IN  IF ~key.ok
           THEN /\ rState' = IF cancelled THEN rState ELSE "decrypt_error"
                /\ rPc' = "finished"
                /\ UNCHANGED <<rKey, fPc, fResult, query, fetchPool, wire, console>>
           ELSE /\ rKey' = key.key
                /\ rState' = IF cancelled THEN rState ELSE "fetching"
                /\ rPc' = "awaitFetch"
                /\ IF ~ValidDocId(rDocId)
                   THEN /\ fPc' = "settled"
                        /\ fResult' = FetchFailed(ErrInvalidDocId)
                        /\ UNCHANGED <<query, fetchPool, wire, console>>
                   ELSE /\ fPc' = "querying"
                        /\ fetchPool' = "open"
                        /\ query' = [r \in Relays |-> "pending"]
                        /\ wire' = wire \cup {ReqMessage(r, FetchFilter(rDocId)) : r \in Relays}
                        /\ console' = console \cup {rDocId}
                        /\ UNCHANGED fResult
    /\ UNCHANGED <<rDocId, rHash, rContent, rOut, cancelled, got, fEvent, relinks,
                   writeVars, store, sealed, notFlow>>

\* A relay answers the filter with the events it holds for it, then EOSE.
RelayAnswer(r) ==
    /\ fPc = "querying"
    /\ query[r] = "pending"
    /\ LET found == {ev \in store[r] : Matches(ev, FetchFilter(rDocId))}
       IN  /\ got' = got \cup {ev.content : ev \in found}
           /\ query' = [query EXCEPT ![r] = IF found = {} THEN "empty" ELSE "event"]
    /\ UNCHANGED <<rPc, rDocId, rHash, rKey, rState, rContent, rOut, cancelled,
                   fPc, fResult, fetchPool, fEvent, relinks, writeVars, store, wire, console, sealed, notFlow>>

\* A relay cannot be reached, or closes the connection.
RelayFail(r) ==
    /\ fPc = "querying"
    /\ query[r] = "pending"
    /\ query' = [query EXCEPT ![r] = "failed"]
    /\ UNCHANGED <<rPc, rDocId, rHash, rKey, rState, rContent, rOut, cancelled,
                   fPc, fResult, got, fetchPool, fEvent, relinks, writeVars, store, wire, console, sealed, notFlow>>

\* Mutant: pool.close() after the try block, not in a finally block.
FetchSettle_CloseOnReturnOnly(outcome) ==
    /\ fResult' = outcome
    /\ fPc' = "settled"
    /\ fetchPool' = IF outcome.ok THEN "closed" ELSE "open"
    /\ \E event \in PoolGot(outcome) :
          /\ fEvent' = event
          /\ console' = console \cup FetchLogs(event, outcome)
    /\ UNCHANGED <<rPc, rDocId, rHash, rKey, rState, rContent, rOut, cancelled,
                   query, got, relinks, writeVars, store, wire, sealed, notFlow>>

\* fetchPaste from the settling of Promise.race to its return or throw, the
\* closing of the pool included.
FetchSettle(outcome) ==
    /\ fResult' = outcome
    /\ fPc' = "settled"
    /\ fetchPool' = "closed"
    /\ \E event \in PoolGot(outcome) :
          /\ fEvent' = event
          /\ console' = console \cup FetchLogs(event, outcome)
    /\ UNCHANGED <<rPc, rDocId, rHash, rKey, rState, rContent, rOut, cancelled,
                   query, got, relinks, writeVars, store, wire, sealed, notFlow>>

\* pool.get resolves when no relay is awaited any more, failed relays being
\* skipped: with one of the events returned, or with null.
FetchPoolResolve ==
    /\ fPc = "querying"
    /\ \A r \in Relays : query[r] # "pending"
    /\ \E outcome \in FetchOutcomes(got) : FetchSettle(outcome)

\* pool.get's own timeout ({ timeout: 10000 }) fires first: it resolves with
\* what it has.
FetchPoolTimeout ==
    /\ fPc = "querying"
    /\ \E r \in Relays : query[r] = "pending"
    /\ \E outcome \in FetchOutcomes(got) : FetchSettle(outcome)

\* Mutant: fetchPaste without its timer.
FetchRaceTimeout_NoTimer ==
    /\ FALSE
    /\ UNCHANGED vars

\* The 10 s timer of fetchPaste fires first: "Relay fetch timeout".
FetchRaceTimeout ==
    /\ fPc = "querying"
    /\ \E r \in Relays : query[r] = "pending"
    /\ FetchSettle(FetchFailed(ErrFetchTimeout))

\* load() resumes after fetchPaste: on a result it shows "decrypting" and calls
\* decryptPaste, on a throw it maps the error to a state; a cancelled load
\* sets nothing.
ReaderAfterFetch ==
    /\ rPc = "awaitFetch"
    /\ fPc = "settled"
    /\ IF fResult.ok
       THEN IF cancelled
            THEN rPc' = "finished" /\ UNCHANGED rState
            ELSE rPc' = "awaitDecrypt" /\ rState' = "decrypting"
       ELSE /\ rPc' = "finished"
            /\ rState' = IF cancelled THEN rState ELSE ReaderStateFor(fResult.error)
    /\ UNCHANGED <<rDocId, rHash, rKey, rContent, rOut, cancelled,
                   fPc, fResult, query, got, fetchPool, fEvent, relinks,
                   writeVars, store, wire, console, sealed, notFlow>>

\* Mutant: load() resumes after decryptPaste without looking at cancelled.
ReaderAfterDecrypt_NoCancelCheck ==
    /\ rPc = "awaitDecrypt"
    /\ LET plaintext == decryptPaste(fResult.ciphertext, fResult.nonce, rKey)
       IN  /\ rOut' = plaintext
           /\ IF plaintext.ok
              THEN rContent' = plaintext.text /\ rState' = "done"
              ELSE rState' = "decrypt_error" /\ UNCHANGED rContent
    /\ rPc' = "finished"
    /\ UNCHANGED <<rDocId, rHash, rKey, cancelled, fPc, fResult, query, got, fetchPool, fEvent, relinks,
                   writeVars, store, wire, console, sealed, notFlow>>

\* Mutant: a throw of decryptPaste is taken for an empty text.
ReaderAfterDecrypt_DoneOnThrow ==
    /\ rPc = "awaitDecrypt"
    /\ LET plaintext == decryptPaste(fResult.ciphertext, fResult.nonce, rKey)
       IN  /\ rOut' = plaintext
           /\ IF cancelled
              THEN UNCHANGED <<rContent, rState>>
              ELSE rContent' = plaintext.text /\ rState' = "done"
    /\ rPc' = "finished"
    /\ UNCHANGED <<rDocId, rHash, rKey, cancelled, fPc, fResult, query, got, fetchPool, fEvent, relinks,
                   writeVars, store, wire, console, sealed, notFlow>>

\* load() resumes after decryptPaste.
ReaderAfterDecrypt ==
    /\ rPc = "awaitDecrypt"
    /\ LET plaintext == decryptPaste(fResult.ciphertext, fResult.nonce, rKey)
       IN  /\ rOut' = plaintext
           /\ IF plaintext.ok
              THEN IF cancelled
                   THEN UNCHANGED <<rContent, rState>>
                   ELSE rContent' = plaintext.text /\ rState' = "done"
              ELSE /\ rState' = IF cancelled THEN rState ELSE "decrypt_error"
                   /\ UNCHANGED rContent
    /\ rPc' = "finished"
    /\ UNCHANGED <<rDocId, rHash, rKey, cancelled, fPc, fResult, query, got, fetchPool, fEvent, relinks,
                   writeVars, store, wire, console, sealed, notFlow>>

\* The cleanup of the effect (unmount, or another link): cancelled = true.
ReaderCleanup ==
    /\ rPc \in {"awaitKey", "awaitFetch", "awaitDecrypt"}
    /\ ~cancelled
    /\ cancelled' = TRUE
    /\ UNCHANGED <<rPc, rDocId, rHash, rKey, rState, rContent, rOut,
                   fPc, fResult, query, got, fetchPool, fEvent, relinks,
                   writeVars, store, wire, console, sealed, notFlow>>

\* The links the address bar is changed to while the Reader is mounted: the
\* paste's own link, and a link to a docId no relay holds.
RelinkLinks ==
    {[docId |-> LinkDocId, hash |-> <<ChHash>> \o ToHex(LinkKey)],
     [docId |-> ToHex(Fill(170, DOCIDBYTES)), hash |-> <<ChHash>> \o ToHex(LinkKey)]}

\* docId or hash changes while the Reader is mounted: React keeps state and
\* content, runs the cleanup of the effect and runs the effect again, with a
\* cancelled flag of its own; load() runs up to its first await. The load that
\* is superseded is taken here once it has run to its end, and the reader
\* changes links only where the paste was published and no other client wrote.
ReaderRelink ==
    /\ rPc = "finished"
    /\ relinks < MaxRelinks
    /\ wPc = "published"
    /\ \A r \in Relays : \A ev \in store[r] : ev.pubkey = wEvent.pubkey
    /\ relinks' = relinks + 1
    /\ \E link \in RelinkLinks :
          /\ link.docId # rDocId \/ link.hash # rHash
          /\ rDocId' = link.docId
          /\ rHash' = link.hash
          /\ IF link.docId = <<>> \/ link.hash = <<>>
             THEN rState' = "decrypt_error" /\ rPc' = "finished"
             ELSE rState' = rState /\ rPc' = "awaitKey"
    /\ cancelled' = FALSE
    /\ rKey' = NoBytes
    /\ rOut' = DecryptFailed(NoError)
    /\ fPc' = "idle"
    /\ fResult' = FetchFailed(NoError)
    /\ fEvent' = NoEvent
    /\ query' = [r \in Relays |-> "idle"]
    /\ got' = {}
    /\ fetchPool' = "none"
    /\ UNCHANGED <<rContent, writeVars, store, wire, console, sealed, notFlow>>

Next ==
    \/ EditorHandleEncrypt
    \/ AppHandleEncrypt
    \/ \E r \in Relays : RelayAccept(r)
    \/ \E r \in Relays : RelayReject(r)
    \/ PublishSettled
    \/ PublishTimeout
    \/ ForeignPublish
    \/ ReaderMount
    \/ ReaderKeyReady
    \/ \E r \in Relays : RelayAnswer(r)
    \/ \E r \in Relays : RelayFail(r)
    \/ FetchPoolResolve
    \/ FetchPoolTimeout
    \/ FetchRaceTimeout
    \/ ReaderAfterFetch
    \/ ReaderAfterDecrypt
    \/ ReaderCleanup

-----------------------------------------------------------------------------
(* Paste creations interleaved in one process: Editor.handleEncrypt,       *)
(* encryptPaste, App.handleEncrypt and publishPaste, each call with its     *)
(* own locals, over the one random source and the one App state            *)

Creations == 1..NCreations

\* publishPaste up to pool.publish with the keypair generateKeypair gave it
SignedEventBy(docId, nonce, ciphertext, keys) ==
    LET content == EncodePayload(nonce, ciphertext)
        pubkey == getPublicKey(keys.privateKey)
        unsignedEvent == createEvent(content, docId, pubkey)
        id == getEventHash(unsignedEvent)
        sig == signEvent(id, keys.privateKey)
    IN  [kind |-> unsignedEvent.kind, content |-> unsignedEvent.content,
         tags |-> unsignedEvent.tags, pubkey |-> unsignedEvent.pubkey,
         id |-> id, sig |-> sig]

\* generateKeypair of the publish of creation c: a draw of its own
KeypairOf(c) == [privateKey |-> ToHex(RandBytes(12 + c, KEYBYTES))]

InitCreations ==
    /\ tPc = [c \in Creations |-> "idle"]
    /\ tContent = [c \in Creations |-> <<>>]
    /\ tPaste = [c \in Creations |-> NoPaste]
    /\ tEvent = [c \in Creations |-> NoSignedEvent]
    /\ tPool = [c \in Creations |-> "none"]
    /\ tMounted = [c \in Creations |-> FALSE]
    /\ isEncrypting = FALSE
    /\ awaiting = <<>>
    /\ randomCalls = 0

\* Editor.handleEncrypt up to `await encryptPaste(content)`, and encryptPaste
\* up to `await sodium.ready`: the [create] button is enabled only while
\* isEncrypting is false and the text is not blank.
EditorClick(c) ==
    /\ tPc[c] = "idle"
    /\ \A c2 \in Creations : c2 < c => tPc[c2] # "idle"
    /\ location = <<ChSlash>>
    /\ ~isEncrypting
    /\ \E text \in FlowTexts : tContent' = [tContent EXCEPT ![c] = text]
    /\ tPc' = [tPc EXCEPT ![c] = "awaitEncrypt"]
    /\ tMounted' = [tMounted EXCEPT ![c] = TRUE]
    /\ isEncrypting' = TRUE
    /\ awaiting' = Append(awaiting, c)
    /\ UNCHANGED <<tPaste, tEvent, tPool, randomCalls, flowVars, sealed, notCreation>>

\* Home: [read] then [create], or the header link back to "/": the Editor is
\* unmounted and a new one mounted, its state as useState initialises it.
EditorRemount ==
    /\ location # <<ChSlash>> \/ isEncrypting \/ \E c \in Creations : tMounted[c]
    /\ location' = <<ChSlash>>
    /\ isEncrypting' = FALSE
    /\ tMounted' = [c \in Creations |-> FALSE]
    /\ UNCHANGED <<tPc, tContent, tPaste, tEvent, tPool, awaiting, randomCalls,
                   wPc, wText, wPaste, appDocId, capabilityUrl, wEvent, pub, pubPool,
                   readVars, store, wire, console, sealed, notCreation>>

\* The oldest suspended encryptPaste call resumes and returns; Editor logs
\* the result and calls onEncrypt; App.handleEncrypt builds the link, sets
\* docId and capabilityUrl and calls publishPaste, which runs up to
\* `await generateKeypair()`; Editor's finally block clears isEncrypting.
CreationResume ==
    /\ awaiting # <<>>
    /\ LET c == Head(awaiting)
           paste == encryptPaste(tContent[c], randomCalls + 1)
       IN  /\ tPaste' = [tPaste EXCEPT ![c] = paste]
           /\ sealed' = sealed \cup {Sealing(paste.ciphertext, paste.nonce, paste.key)}
           /\ console' = console \cup {paste.docId, paste.key, paste.ciphertext, paste.nonce}
           /\ capabilityUrl' = buildCapabilityUrl(paste.docId, paste.key)
           /\ appDocId' = paste.docId
           /\ tPc' = [tPc EXCEPT ![c] = "signing"]
           /\ isEncrypting' = IF tMounted[c] THEN FALSE ELSE isEncrypting
    /\ awaiting' = Tail(awaiting)
    /\ randomCalls' = randomCalls + 1
    /\ UNCHANGED <<tContent, tEvent, tPool, tMounted,
                   wPc, wText, wPaste, location, wEvent, pub, pubPool,
                   readVars, store, wire, notCreation>>

\* publishPaste from generateKeypair to `await Promise.race`: the event is
\* made, signed, logged and sent to every relay.
CreationSend(c) ==
    /\ tPc[c] = "signing"
    /\ LET call == AppPublishCall(tPaste[c].docId, tPaste[c].key,
                                  tPaste[c].ciphertext, tPaste[c].nonce)
           signedEvent == SignedEventBy(call.docId, call.nonce, call.ciphertext, KeypairOf(c))
       IN  /\ tEvent' = [tEvent EXCEPT ![c] = signedEvent]
           /\ wire' = wire \cup {EventMessage(r, signedEvent) : r \in Relays}
           /\ console' = console \cup {encodeNoteId(signedEvent.id), call.docId}
    /\ tPool' = [tPool EXCEPT ![c] = "open"]
    /\ tPc' = [tPc EXCEPT ![c] = "publishing"]
    /\ UNCHANGED <<tContent, tPaste, tMounted, isEncrypting, awaiting, randomCalls,
                   writeVars, readVars, store, sealed, notCreation>>

\* Promise.race settles for creation c: the relays in `accepted` stored the
\* event, and the timer won when one of the others never answered;
\* publishPaste closes its pool. Every relay is sent the same event and
\* nothing here reads the stores, so the relays that accepted are taken to
\* be the first k of them. On success App navigates to the share route
\* unless it is there, and Share, when DocIdRoute renders it, logs the docId.
CreationSettled(c) ==
    /\ tPc[c] = "publishing"
    /\ tPool' = [tPool EXCEPT ![c] = "closed"]
    /\ \E accepted \in {1..k : k \in 0..NRelays} :
       \E timerWon \in {won \in BOOLEAN : won => accepted # Relays} :
          /\ store' = [r \in Relays |->
                          IF r \in accepted THEN store[r] \cup {tEvent[c]} ELSE store[r]]
          /\ IF timerWon \/ accepted = {}
             THEN /\ tPc' = [tPc EXCEPT ![c] = "publish_failed"]
                  /\ UNCHANGED <<location, console, tMounted, isEncrypting>>
             ELSE /\ tPc' = [tPc EXCEPT ![c] = "published"]
                  /\ IF StartsWith(location, <<ChSlash>> \o tPaste[c].docId)
                     THEN /\ console' = console \cup {encodeNoteId(tEvent[c].id)}
                          /\ UNCHANGED <<location, tMounted, isEncrypting>>
                     ELSE /\ location' = ShareTarget(tPaste[c].docId, tPaste[c].key)
                          /\ tMounted' = [c2 \in Creations |-> FALSE]
                          /\ isEncrypting' = FALSE
                          /\ console' = console
                                \cup {encodeNoteId(tEvent[c].id),
                                      ShareTarget(tPaste[c].docId, tPaste[c].key)}
                                \cup (IF appDocId = tPaste[c].docId THEN {appDocId} ELSE {})
    /\ UNCHANGED <<tContent, tPaste, tEvent, awaiting, randomCalls,
                   wPc, wText, wPaste, appDocId, capabilityUrl, wEvent, pub, pubPool,
                   readVars, wire, sealed, notCreation>>

NextCreations ==
    \/ \E c \in Creations : EditorClick(c)
    \/ EditorRemount
    \/ CreationResume
    \/ \E c \in Creations : CreationSend(c)
    \/ \E c \in Creations : CreationSettled(c)

-----------------------------------------------------------------------------
(* The readiness of libsodium and the core entry points: which of them     *)
(* await sodium.ready, and which libsodium functions each of them calls    *)

EntryPoints ==
    {"encryptPaste", "decryptPaste", "hexToKey", "generateDocId",
     "buildCapabilityUrl", "parseCapabilityUrl"}

\* Mutant: hexToKey and generateDocId synchronous, without `await cryptoReady`.
Awaits_KeysNotGated(entry) == entry \in {"encryptPaste", "decryptPaste"}

\* The entry points whose first statement is `await sodium.ready` or
\* `await cryptoReady`
Awaits(entry) == entry \in {"encryptPaste", "decryptPaste", "hexToKey", "generateDocId"}

\* The libsodium functions an entry point calls when its argument passes its
\* own validation (valid = TRUE), and when it throws on it
Primitives(entry, valid) ==
    CASE entry = "encryptPaste" -> {"randombytes_buf", "to_hex", "from_string", "aead_encrypt"}
      [] entry = "decryptPaste" ->
            IF valid THEN {"aead_decrypt", "to_string", "memzero"} ELSE {}
      [] entry = "hexToKey" -> IF valid THEN {"from_hex"} ELSE {}
      [] entry = "generateDocId" -> {"randombytes_buf", "to_hex", "memzero"}
      [] entry = "buildCapabilityUrl" -> {"to_hex"}
      [] entry = "parseCapabilityUrl" -> IF valid THEN {"from_hex"} ELSE {}

\* The random source and the cipher
RandomOrCipher == {"randombytes_buf", "aead_encrypt", "aead_decrypt"}

Touches(entry, valid) ==
    {[entry |-> entry, primitive |-> p, ready |-> sodiumReady] : p \in Primitives(entry, valid)}

InitGate ==
    /\ sodiumReady = FALSE
    /\ gatePc = [entry \in EntryPoints |-> "idle"]
    /\ calledEarly = {}
    /\ touched = {}

\* libsodium finishes loading: sodium.ready resolves, once.
SodiumReady ==
    /\ ~sodiumReady
    /\ sodiumReady' = TRUE
    /\ UNCHANGED <<gatePc, calledEarly, touched, notGate>>

\* An entry point is called: one that awaits is suspended at its await, one
\* that does not runs to its return or throw.
EntryCall(entry) ==
    /\ gatePc[entry] \in {"idle", "returned"}
    /\ calledEarly' = IF sodiumReady THEN calledEarly ELSE calledEarly \cup {entry}
    /\ IF Awaits(entry)
       THEN /\ gatePc' = [gatePc EXCEPT ![entry] = "awaiting"]
            /\ UNCHANGED touched
       ELSE /\ gatePc' = [gatePc EXCEPT ![entry] = "returned"]
            /\ \E valid \in BOOLEAN : touched' = touched \cup Touches(entry, valid)
    /\ UNCHANGED <<sodiumReady, notGate>>

\* An entry point resumes after its await and runs to its return or throw.
EntryResume(entry) ==
    /\ gatePc[entry] = "awaiting"
    /\ sodiumReady
    /\ gatePc' = [gatePc EXCEPT ![entry] = "returned"]
    /\ \E valid \in BOOLEAN : touched' = touched \cup Touches(entry, valid)
    /\ UNCHANGED <<sodiumReady, calledEarly, notGate>>

NextGate ==
    \/ SodiumReady
    \/ \E entry \in EntryPoints : EntryCall(entry)
    \/ \E entry \in EntryPoints : EntryResume(entry)

Init == InitUrl /\ InitCodec /\ InitFlow /\ InitGate /\ InitCreations

Spec == Init /\ [][Next]_vars

\* pool.get has nothing left to wait for: the guard of FetchPoolResolve
PoolSettled == fPc = "querying" /\ \A r \in Relays : query[r] # "pending"

\* The guards of FetchPoolResolve and ReaderAfterDecrypt are what enables them
EnabledByGuard ==
    /\ (ENABLED <<FetchPoolResolve>>_vars) <=> PoolSettled
    /\ (ENABLED <<ReaderAfterDecrypt>>_vars) <=> (rPc = "awaitDecrypt")

\* What the scheduling of the code guarantees to a load: the promise of
\* hexToKey settles (cryptoReady resolves), the setTimeout of fetchPaste fires
\* while pool.get is pending, load() resumes after fetchPaste settled, pool.get
\* resolves once no relay is awaited, and load() resumes after decryptPaste.
\* Nothing is assumed of the relays. The last two conjuncts are
\* WF_vars(FetchPoolResolve) and WF_vars(ReaderAfterDecrypt) written out, with
\* ENABLED replaced by the guard it is equal to (EnabledByGuard).
Fairness ==
    /\ WF_vars(ReaderKeyReady)
    /\ WF_vars(FetchRaceTimeout)
    /\ WF_vars(ReaderAfterFetch)
    /\ ([]<>(~PoolSettled) \/ []<><<FetchPoolResolve>>_vars)
    /\ ([]<>(rPc # "awaitDecrypt") \/ []<><<ReaderAfterDecrypt>>_vars)

SpecLive == Spec /\ Fairness

NextRelink == Next \/ ReaderRelink

SpecRelink == Init /\ [][NextRelink]_vars

SpecUrl == Init /\ [][NextUrl]_vars

SpecCodec == Init /\ [][NextCodec]_vars

SpecGate == Init /\ [][NextGate]_vars

SpecCreations == Init /\ [][NextCreations]_vars

-----------------------------------------------------------------------------
(* Claims about the write flow and the read flow, checked under Spec       *)

\* The key and the plaintext, as bytes and as text, on the writer's side and
\* on the reader's side.
Secrets ==
    {wPaste.key, ToHex(wPaste.key), wText, from_string(wText),
     rKey, Slice(rHash, 1), rContent, from_string(rContent)} \ {<<>>}

NoSecretIn(fields) ==
    \A secret \in Secrets : \A field \in fields : ~Occurs(secret, field)

\* Every message a client has sent to a relay is either the EVENT of the
\* write flow, whose content is base64(nonce || ciphertext), whose tags are the
\* docId and the client tag and whose pubkey, id and sig come from the ephemeral
\* signing key, or the REQ of the read flow, whose filter holds the kind and
\* the docId; in no field of any of them, nor in the bytes the content decodes
\* to, does the key (bytes or hex) or the plaintext (text or bytes) occur.
WireClean ==
    /\ \A m \in wire : m.type \in {"EVENT", "REQ"}
    /\ \A ev \in {m.event : m \in {x \in wire : x.type = "EVENT"}} :
          LET decoded == atob(ev.content)
          IN  /\ ev.kind = PASTE_KIND
              /\ ev.content = uint8ArrayToBase64(wPaste.nonce \o wPaste.ciphertext)
              /\ decoded.ok
              /\ ev.tags = [d |-> wPaste.docId, client |-> ClientTag]
              /\ ev.pubkey = getPublicKey(generateKeypair.privateKey)
              /\ ev.id = getEventHash(createEvent(ev.content, wPaste.docId, ev.pubkey))
              /\ ev.sig = signEvent(ev.id, generateKeypair.privateKey)
              /\ NoSecretIn({ev.content, decoded.bytes, ev.tags.d, ev.tags.client,
                             ev.pubkey, ev.id, ev.sig})
    /\ \A f \in {m.filter : m \in {x \in wire : x.type = "REQ"}} :
          /\ f = [kinds |-> {PASTE_KIND}, d |-> {rDocId}]
          /\ NoSecretIn(f.d)

\* What WireClean depends on
wireView == <<wire, wPaste, wText, rDocId, rKey, rHash, rContent>>

\* The states in which a message has just been sent or a client has just come
\* to hold a key or a plaintext: after encryptPaste, after pool.publish, after
\* the Reader got its link, after fetchPaste sent its filter, after decryption.
MessageMoment ==
    \/ wPc = "encrypted"
    \/ wPc = "publishing" /\ \A r \in Relays : pub[r] = "pending"
    \/ rPc = "awaitKey" /\ ~cancelled
    \/ rPc = "finished" /\ fPc = "idle"
    \/ rPc = "awaitFetch" /\ fPc = "settled" /\ fetchPool = "none"
    \/ fPc = "querying" /\ \A r \in Relays : query[r] = "pending"
    \/ rPc = "finished" /\ rState = "done"

\* Between those moments neither the messages sent nor the keys and plaintexts
\* held change, so that what holds at each of them holds always.
WireViewSettled == [][wireView' # wireView => MessageMoment']_vars

\* C4: in the write flow and the read flow, at every moment a message has been
\* sent to a relay or a client has come to hold a key or a plaintext, every
\* message sent so far holds only the docId, base64(nonce || ciphertext), the
\* client tag, the ephemeral signing data and the fetch filter, and neither the
\* key nor the plaintext occurs in any of them.
C4_RelaysSeeNoSecret == MessageMoment => WireClean

\* A paste was published and read back: both kinds of message are on the wire.
C4_Witness ==
    /\ \E m \in wire : m.type = "EVENT"
    /\ \E m \in wire : m.type = "REQ"
    /\ rState = "done"
    /\ rContent = wText
    /\ wText = <<8364, 128274>>

\* A load that ran to its end without being cancelled
LoadEnded == rPc = "finished" /\ ~cancelled

\* C9: for a load that was not cancelled, when fetchPaste found no record
\* (NotFoundError) the Reader ends in not_found, and when it returned a record
\* that decryptPaste rejects the Reader ends in decrypt_error; not_found is
\* shown only after NotFoundError, and decrypt_error never after it.
C9_NotFoundVsWrongKey ==
    /\ (LoadEnded /\ fPc = "settled" /\ fResult.error = ErrNotFound) => rState = "not_found"
    /\ (LoadEnded /\ fPc = "settled" /\ fResult.ok /\ ~rOut.ok) => rState = "decrypt_error"
    /\ rState = "not_found" => (fPc = "settled" /\ ~fResult.ok /\ fResult.error = ErrNotFound)
    /\ rState = "decrypt_error" => fResult.error # ErrNotFound

\* The paste is on a relay and the link carries another key.
C9_Witness ==
    /\ LoadEnded
    /\ rState = "decrypt_error"
    /\ fResult.ok
    /\ fResult.ciphertext = wPaste.ciphertext
    /\ rKey = Fill(0, KEYBYTES)
    /\ rOut.error = ErrDecryptFailed

\* No relay answered the filter: each failed or was still awaited when
\* fetchPaste settled.
NoRelayAnswered == \A r \in Relays : query[r] \in {"failed", "pending"}

\* C10 as stated: when no relay answered, fetchPaste fails with an error other
\* than NotFoundError and the Reader ends in fetch_error; not_found is shown
\* only when some relay answered and none returned an event.
C10_UnreachableIsNotNotFound ==
    /\ (fPc = "settled" /\ IsHex64(rDocId) /\ NoRelayAnswered) =>
            /\ ~fResult.ok
            /\ fResult.error.name # "NotFoundError"
            /\ LoadEnded => rState = "fetch_error"
    /\ rState = "not_found" =>
            /\ \E r \in Relays : query[r] = "empty"
            /\ \A r \in Relays : query[r] # "event"

\* C11 as stated: once a relay has acknowledged the event while publishPaste
\* is waiting, publishPaste does not fail, whatever the other relays do; it
\* fails only when no relay acknowledged.
C11_OneAckSuffices ==
    [][(wPc = "publishing" /\ \E r \in Relays : pub[r] = "ok")
            => wPc' # "publish_failed"]_vars

\* The states of the Reader in which a load has ended
TerminalStates == {"done", "not_found", "decrypt_error", "fetch_error"}

DisplayOfLoad ==
    CASE rState = "fetching" -> rPc \in {"unmounted", "awaitKey", "awaitFetch"}
      [] rState = "decrypting" -> rPc = "awaitDecrypt"
      [] rState = "done" -> rPc = "finished" /\ rOut.ok /\ rContent = rOut.text
      [] rState = "not_found" ->
            rPc = "finished" /\ fPc = "settled" /\ fResult.error = ErrNotFound
      [] rState = "fetch_error" ->
            /\ rPc = "finished" /\ fPc = "settled" /\ ~fResult.ok
            /\ fResult.error \notin {ErrNotFound, ErrInvalidEvent}
      [] rState = "decrypt_error" ->
            /\ rPc = "finished"
            /\ \/ rDocId = <<>>
               \/ rHash = <<>>
               \/ fPc = "settled" /\ fResult.error = ErrInvalidEvent
               \/ fPc = "settled" /\ fResult.ok /\ ~rOut.ok
               \/ fPc = "idle" /\ ~hexToKey(Slice(rHash, 1)).ok

\* Once the cleanup has run, the load it cancelled sets neither state nor
\* content, at whichever await it resumes.
SupersededLoadIsSilent ==
    (cancelled /\ cancelled') => (rState' = rState /\ rContent' = rContent)

TooShortForNonce(content) ==
    LET combined == atob(content)
    IN  ~combined.ok \/ Len(combined.bytes) < NPUBBYTES

\* C14: when the event fetchPaste got has a content that is not valid base64
\* or is too short to hold a nonce, fetchPaste throws InvalidEventError, the
\* Reader shows neither not_found nor fetch_error, and a load that was not
\* cancelled ends in decrypt_error.
C14_MalformedRecordIsDecryptError ==
    (fPc = "settled" /\ fEvent.found /\ TooShortForNonce(fEvent.content)) =>
        /\ fResult = FetchFailed(ErrInvalidEvent)
        /\ rState \notin {"not_found", "fetch_error"}
        /\ LoadEnded => rState = "decrypt_error"

\* A relay returned an event whose content decodes to 10 bytes.
C14_Witness ==
    /\ LoadEnded
    /\ fEvent.found
    /\ fEvent.content = uint8ArrayToBase64(Fill(1, 10))
    /\ fResult.error = ErrInvalidEvent
    /\ rState = "decrypt_error"

\* The link the Reader was opened with is structurally invalid: no key
\* fragment, or a key that is not 64 hex characters
InvalidLink == rHash = <<>> \/ ~IsHex64(Slice(rHash, 1))

\* C15 as stated: a structurally invalid link opened directly at
\* /:docId#fragment is shown as an invalid-link error, a state of the Reader
\* other than decrypt_error and fetch_error.
C15_InvalidLinkIsDistinct ==
    (LoadEnded /\ InvalidLink) => rState \notin {"decrypt_error", "fetch_error"}

\* C16 as stated: fetchPaste returns a (nonce, ciphertext) pair only for a
\* content that is valid base64 of at least 40 bytes (a nonce and the least
\* ciphertext), and rejects every other content as malformed.
C16_DecodeRejectsBelow40 ==
    (fPc = "settled" /\ fEvent.found) =>
        LET combined == atob(fEvent.content)
        IN  IF combined.ok /\ Len(combined.bytes) >= NPUBBYTES + ABYTES
            THEN fResult.ok
            ELSE fResult = FetchFailed(ErrInvalidEvent)

\* The sizes a maximum could be set to such that some text the Editor is given
\* here is above it
PayloadLimits ==
    {n \in 0..(4 * MaxTextLen) : \E text \in FlowTexts : Len(from_string(text)) > n}

\* C17 as stated: there is a maximum size such that a plaintext above it makes
\* the write flow fail before anything is encrypted, before publishPaste opens
\* a relay pool and before any event is sent to a relay.
C17_PayloadTooLargeBeforeNetwork ==
    \E maximum \in PayloadLimits :
        Len(from_string(wText)) > maximum =>
            /\ wPaste = NoPaste
            /\ pubPool = "none"
            /\ \A m \in wire : m.type # "EVENT"

\* C19 as stated: nothing given to console.log in the write flow or the read
\* flow holds the symmetric key, as bytes or as hex: neither the key
\* encryptPaste made nor the key the Reader took from its link.
C19_KeyNeverLogged ==
    \A key \in {wPaste.key, rKey} \ {NoBytes} :
        \A entry \in console : ~Occurs(key, entry) /\ ~Occurs(ToHex(key), entry)

-----------------------------------------------------------------------------
(* Claims about the readiness of libsodium, checked under SpecGate         *)

MalformedDocId(docId) == Len(docId) # 64 \/ \E i \in 1..Len(docId) : ~IsHexChar(docId[i])

\* C27: once publishPaste has settled (published, every relay refused, timer
\* won) the pool it created is closed; once fetchPaste has settled (result,
\* not found, malformed content, timer won) the pool it created is closed,
\* and it created none when it rejected the docId; a pool is open only while
\* its call is pending.
C27_PoolsClosed ==
    /\ wPc \in {"published", "publish_failed"} => pubPool = "closed"
    /\ pubPool = "open" <=> wPc = "publishing"
    /\ fPc = "settled" => fetchPool = IF MalformedDocId(rDocId) THEN "none" ELSE "closed"
    /\ fetchPool = "open" <=> fPc = "querying"

\* publishPaste left by its timer (a relay acknowledged after it) and
\* fetchPaste left by its timer
C27_Witness ==
    /\ wPc = "publish_failed"
    /\ \E r \in Relays : pub[r] = "ok"
    /\ pubPool = "closed"
    /\ fPc = "settled"
    /\ fResult = FetchFailed(ErrFetchTimeout)
    /\ fetchPool = "closed"

\* C26: the Reader is in state done only with the key of the link's fragment
\* being the key the text was encrypted under and with that text as content;
\* and a load that was handed any other payload for the docId (another
\* client's, cut short, sealed under another key, not a payload at all), or
\* the paste's payload under another key, ends in decrypt_error.
C26_ReadIntegrity ==
    /\ rState = "done" =>
            /\ wPaste # NoPaste
            /\ Slice(rHash, 1) = ToHex(wPaste.key)
            /\ rKey = wPaste.key
            /\ rContent = wText
    /\ (/\ rPc = "finished"
        /\ ~cancelled
        /\ fPc = "settled"
        /\ fEvent.found
        /\ fEvent.content # wEvent.content \/ rKey # wPaste.key)
       => (rState = "decrypt_error" /\ rContent = <<>>)

\* The relay returned the writer's payload with its last byte cut off, the
\* link carrying the right key.
C26_Witness ==
    /\ rPc = "finished"
    /\ ~cancelled
    /\ rKey = wPaste.key
    /\ fEvent.found
    /\ fEvent.content \in TruncatedContents
    /\ fResult.ok
    /\ rState = "decrypt_error"

\* C25: for a docId that is not exactly 64 hex characters fetchPaste creates
\* no relay pool and sends no query, no relay is asked anything, and it fails
\* with an error that is neither NotFoundError nor InvalidEventError.
C25_BadDocIdContactsNoRelay ==
    (rPc # "unmounted" /\ MalformedDocId(rDocId)) =>
        /\ fetchPool = "none"
        /\ \A r \in Relays : query[r] = "idle"
        /\ \A m \in wire : m.type # "REQ"
        /\ fPc \in {"idle", "settled"}
        /\ fPc = "settled" =>
                /\ ~fResult.ok
                /\ fResult.error = ErrInvalidDocId
                /\ fResult.error.name \notin {ErrNotFound.name, ErrInvalidEvent.name}

\* A docId of 64 characters, the last of them not a hex digit, with a valid
\* key: fetchPaste was called and has thrown.
C25_Witness ==
    /\ Len(rDocId) = 64
    /\ MalformedDocId(rDocId)
    /\ rKey = LinkKey
    /\ fPc = "settled"
    /\ fResult.error = ErrInvalidDocId
    /\ fetchPool = "none"

-----------------------------------------------------------------------------
(* Claims about interleaved paste creations, checked under SpecCreations   *)

\* encryptPaste has returned to creation c
Returned(c) == tPc[c] \notin {"idle", "awaitEncrypt"}

\* C22: when paste creations are interleaved in one process, each
\* encryptPaste call returns a (docId, key, nonce, ciphertext) of its own, no
\* part of it shared with another call, that decrypts to the plaintext that
\* call was given; and the docId and the capabilityUrl of App state are
\* always those of one and the same creation.
C22_CreationsDoNotLeak ==
    /\ \A c \in Creations : Returned(c) =>
            decryptPaste(tPaste[c].ciphertext, tPaste[c].nonce, tPaste[c].key)
                = Decrypted(tContent[c])
    /\ \A c, c2 \in Creations : (Returned(c) /\ Returned(c2) /\ c # c2) =>
            /\ tPaste[c].docId # tPaste[c2].docId
            /\ tPaste[c].key # tPaste[c2].key
            /\ tPaste[c].nonce # tPaste[c2].nonce
            /\ tPaste[c].ciphertext # tPaste[c2].ciphertext
    /\ \/ appDocId = <<>> /\ capabilityUrl = <<>>
       \/ \E c \in Creations :
            /\ Returned(c)
            /\ appDocId = tPaste[c].docId
            /\ capabilityUrl = buildCapabilityUrl(tPaste[c].docId, tPaste[c].key)

\* The second creation was encrypted while the first was being published, and
\* the first publish has since succeeded: the browser is at the first paste's
\* share route, App state holds the second paste's docId and link.
C22_Witness ==
    /\ tPc[1] = "published"
    /\ tPc[2] = "publishing"
    /\ tContent[1] # tContent[2]
    /\ location = ShareTarget(tPaste[1].docId, tPaste[1].key)
    /\ appDocId = tPaste[2].docId
    /\ capabilityUrl = buildCapabilityUrl(tPaste[2].docId, tPaste[2].key)

-----------------------------------------------------------------------------
(* Claims about the paste codec, checked under SpecCodec                   *)

ValidLengths(in) ==
    /\ Len(in.key) = KEYBYTES
    /\ Len(in.nonce) = NPUBBYTES
    /\ Len(in.ciphertext) >= ABYTES

\* C1: a plaintext encrypted by encryptPaste, encoded as publishPaste encodes
\* it, decoded as fetchPaste decodes it and decrypted by decryptPaste with the
\* key encryptPaste returned comes back unchanged (the empty text and texts of
\* multi-byte characters included).
C1_RoundTrip ==
    /\ (cPc \in {"decoded", "decrypted"} /\ cPlain.by = "encryptPaste") =>
            /\ cFetched.ok
            /\ cFetched.nonce = cPaste.nonce
            /\ cFetched.ciphertext = cPaste.ciphertext
    /\ (cPc = "decrypted" /\ cPlain.by = "encryptPaste" /\ cIn.tamper = "none") =>
            /\ cOut.ok
            /\ cOut.text = cPlain.text

C1_Witness ==
    /\ cPc = "decrypted"
    /\ cIn.tamper = "none"
    /\ cPlain.text = <<8364, 128274>>
    /\ cOut.text = <<8364, 128274>>

\* C2: after one bit of the ciphertext or of the nonce of an encrypted paste
\* is changed, decryptPaste with the paste's key fails and returns no text.
C2_TamperDetected ==
    (/\ cPc = "decrypted"
     /\ cPlain.by = "encryptPaste"
     /\ cIn.key = cPaste.key
     /\ \/ /\ cIn.tamper = "ciphertext bit"
           /\ cIn.ciphertext # cPaste.ciphertext
           /\ cIn.nonce = cPaste.nonce
        \/ /\ cIn.tamper = "nonce bit"
           /\ cIn.nonce # cPaste.nonce
           /\ cIn.ciphertext = cPaste.ciphertext)
    => (~cOut.ok /\ cOut.text = <<>>)

\* The last bit of the tag of an encrypted two-character text is flipped.
C2_Witness ==
    /\ cPc = "decrypted"
    /\ cPlain.by = "encryptPaste"
    /\ Len(cPlain.text) = 2
    /\ cIn.ciphertext = FlipBit(cPaste.ciphertext, Len(cPaste.ciphertext), 0)
    /\ ~cOut.ok

\* C3: decryptPaste of an encrypted paste with a 32-byte key other than the
\* one encryptPaste returned (the all-zero key included) fails with the
\* authentication-failure error and returns no text.
C3_WrongKeyFails ==
    (/\ cPc = "decrypted"
     /\ cPlain.by = "encryptPaste"
     /\ cIn.ciphertext = cPaste.ciphertext
     /\ cIn.nonce = cPaste.nonce
     /\ Len(cIn.key) = KEYBYTES
     /\ cIn.key # cPaste.key)
    => (~cOut.ok /\ cOut.text = <<>> /\ cOut.error = ErrDecryptFailed)

C3_Witness ==
    /\ cPc = "decrypted"
    /\ cPlain.by = "encryptPaste"
    /\ cPlain.text = <<>>
    /\ cIn.key = Fill(0, KEYBYTES)
    /\ cIn.ciphertext = cPaste.ciphertext
    /\ ~cOut.ok

\* C8: every failure of decryptPaste on inputs of valid lengths (changed
\* ciphertext, changed nonce, corrupted data, authentic bytes that are not
\* text) carries the same error, name and message, as a wrong key does.
C8_NoOracle ==
    (cPc = "decrypted" /\ ~cOut.ok /\ ValidLengths(cIn)) =>
        LET wrongKey == CHOOSE k \in WrongKeys(cPaste.key) : TRUE
        IN  cOut.error = decryptPaste(cPaste.ciphertext, cPaste.nonce, wrongKey).error

\* Bytes sealed by another writer verify under the right key and fail only in
\* the text decoder.
C8_Witness ==
    /\ cPc = "decrypted"
    /\ cPlain.by = "foreign"
    /\ cIn.tamper = "none"
    /\ ValidLengths(cIn)
    /\ ~cOut.ok

\* C18 as stated: when encryptPaste or decryptPaste has settled, on whichever
\* path, every buffer it made that held the key or the plaintext bytes holds
\* only zeros.
C18_BuffersWiped ==
    cPc \in {"encrypted", "decrypted"} =>
        \A buffer \in cHeap : buffer = Fill(0, Len(buffer))

\* C21: decryptPaste fails without calling the cipher when the key is not 32
\* bytes, else when the nonce is not 24 bytes, else when the ciphertext is
\* shorter than 16 bytes, the error naming the first check that fails; the
\* cipher is called only when all three checks pass, and then it is called.
C21_LengthChecksBeforeCipher ==
    cPc = "decrypted" =>
        /\ Len(cIn.key) # KEYBYTES =>
                /\ cOut = DecryptFailed(DecryptionError("Invalid key length"))
                /\ cCalls = <<>>
        /\ (Len(cIn.key) = KEYBYTES /\ Len(cIn.nonce) # NPUBBYTES) =>
                /\ cOut = DecryptFailed(DecryptionError("Invalid nonce length"))
                /\ cCalls = <<>>
        /\ (Len(cIn.key) = KEYBYTES /\ Len(cIn.nonce) = NPUBBYTES
                /\ Len(cIn.ciphertext) < ABYTES) =>
                /\ cOut = DecryptFailed(DecryptionError("Invalid ciphertext length"))
                /\ cCalls = <<>>
        /\ (\E i \in 1..Len(cCalls) : cCalls[i] = CIPHER) <=> ValidLengths(cIn)

\* A 31-byte key, a 25-byte nonce and a 15-byte ciphertext together: the key
\* is what the error names.
C21_Witness ==
    /\ cPc = "decrypted"
    /\ Len(cIn.key) = KEYBYTES - 1
    /\ Len(cIn.nonce) = NPUBBYTES + 1
    /\ Len(cIn.ciphertext) = ABYTES - 1
    /\ cOut.error = DecryptionError("Invalid key length")
    /\ cCalls = <<>>

\* C23: the content publishPaste makes of a 24-byte nonce and a ciphertext is
\* the base64 text of the nonce followed by the ciphertext, the same text an
\* unchunked conversion of those bytes gives (below, at and above the chunk
\* size); and fetchPaste reads exactly that nonce and that ciphertext out of
\* it.
C23_PayloadCodec ==
    /\ cPc \in {"encoded", "decoded", "decrypted", "raw_encoded", "raw_decoded"} =>
            /\ Len(cPaste.nonce) = NPUBBYTES
            /\ cContent = btoa(cPaste.nonce \o cPaste.ciphertext)
    /\ cPc \in {"decoded", "decrypted", "raw_decoded"} =>
            cFetched = Fetched(cPaste.nonce, cPaste.ciphertext)
    /\ cPc = "large_compared" =>
            /\ cLarge.characters = 4 * ((cLarge.bytes + 2) \div 3)
            /\ cLarge.asUnchunked
            /\ cLarge.fetchedBack

\* Nonce and ciphertext together are one byte longer than a chunk.
C23_Witness ==
    /\ cPc = "large_compared"
    /\ cLarge.bytes = CHUNK_SIZE + 1
    /\ cLarge.asUnchunked
    /\ cLarge.fetchedBack

-----------------------------------------------------------------------------
(* Claims about the capability URL codec, checked under SpecUrl            *)

\* C5: in every URL returned by buildCapabilityUrl for a 64-hex docId, and in the
\* navigation target built for the same paste, there is exactly one '#', the
\* part before it is the scheme (or "/") and the docId, the part after it is the
\* key hex, and the key hex does not occur before the '#'.
C5_KeyOnlyInFragment ==
    urlIn.by = "build" =>
        LET keyHex == ToHex(urlIn.key)
        IN  /\ CountOf(url, ChHash) = 1
            /\ SplitFirst(url, ChHash) = NOSLOCK \o urlIn.docId
            /\ Slice(url, IndexOf(url, ChHash)) = keyHex
            /\ ~Occurs(keyHex, SplitFirst(url, ChHash))
            /\ CountOf(navTarget, ChHash) = 1
            /\ SplitFirst(navTarget, ChHash) = <<ChSlash>> \o urlIn.docId
            /\ Slice(navTarget, IndexOf(navTarget, ChHash)) = keyHex
            /\ ~Occurs(keyHex, SplitFirst(navTarget, ChHash))

C5_Witness ==
    /\ urlPc = "built"
    /\ urlIn.by = "build"
    /\ urlIn.key = RandBytes(1, KEYBYTES)
    /\ Len(url) = Len(NOSLOCK) + 64 + 1 + 64

\* C6: parsing the URL built from a 64-hex docId D and a 32-byte key K gives
\* back D and K.
C6_UrlRoundTrip ==
    (urlPc = "parsed" /\ urlIn.by = "build") =>
        /\ urlOut.ok
        /\ urlOut.docId = urlIn.docId
        /\ urlOut.key = urlIn.key

C6_Witness ==
    /\ urlPc = "parsed"
    /\ urlIn.by = "build"
    /\ urlIn.key = Fill(18, KEYBYTES)
    /\ urlIn.docId = ToUpper(ToHex(Fill(170, DOCIDBYTES)))
    /\ urlOut.ok

C24_ParseErrorsClosed ==
    (urlPc = "parsed" /\ ~urlOut.ok) =>
        urlOut.error \in {ErrMissingKeyFragment, ErrInvalidKeyLength, ErrInvalidKeyFormat}

\* The link of the other form for the same docId and the same text after '#'
OtherForm(in) ==
    UrlPrefix(IF in.form = "custom" THEN "web" ELSE "custom")
        \o in.docId \o <<ChHash>> \o in.text

\* C28 as stated: for the same docId and the same text after the first '#',
\* also a text that holds a further '#', parseCapabilityUrl gives the
\* custom-scheme link and the web link the same outcome: the same docId and
\* key, or the same error.
C28_FormsAgree ==
    (urlPc = "parsed" /\ urlIn.hash /\ urlIn.form \in {"custom", "web"}) =>
        urlOut = parseCapabilityUrl(OtherForm(urlIn))

====
